---- MODULE Spec2Model ----
(***************************************************************************)
(* Model of the family meal planner.                                       *)
(*                                                                         *)
(* The ingredient aggregation engine (src/lib/validations.ts, lines        *)
(* 144-413): name normalization, unit normalization, base-unit conversion, *)
(* merge, re-expansion, rounding and the aisle sort.  Strings are          *)
(* sequences of one-character strings, so that toLowerCase, trim and the   *)
(* regular-expression replacements act on characters as they do in the     *)
(* source.  Numbers are exact rationals [n, d] in lowest terms.            *)
(*                                                                         *)
(* The services around it, each with a specification of its own: the meal  *)
(* plan generator (src/lib/recipe-generator.ts), the API routes and        *)
(* handleApiError, the cart automation (src/lib/env.ts), the response      *)
(* cache (src/lib/cache.ts) and the hook useApiMutation.  Their texts are   *)
(* plain strings.                                                          *)
(***************************************************************************)
EXTENDS Integers, Sequences, FiniteSets, TLC

VARIABLES
    nameIn, nameOut, npc,               \* one call of normalizeIngredientName
    amountIn, unitIn, amountOut, rpc,   \* one call of roundAmount
    unitOut,                            \* the unit returned by a call on a unit
    pc, day, meal, iterating, lines, ingredientMap, result,  \* one call of aggregateIngredients
    history, ncalls,                    \* the calls of aggregateIngredients completed before
    gpc, daysOfWeek, genDay, inFlight, requested, mealPlan, thrown,  \* one call of generateMealPlan
    route, apc, caught, responses,      \* the API routes and the responses they sent
    cpc, ingredients, cartIndex, addedCount, failedItems, attempts,  \* one call of addIngredientsToCart
    now, cache, lastOp, lastSet,        \* a Cache, the clock and the last operation on it
    hookState, calls                    \* useApiMutation: the state and the mutate calls

vars == <<nameIn, nameOut, npc, amountIn, unitIn, amountOut, rpc, unitOut,
          pc, day, meal, iterating, lines, ingredientMap, result,
          history, ncalls,
          gpc, daysOfWeek, genDay, inFlight, requested, mealPlan, thrown,
          route, apc, caught, responses,
          cpc, ingredients, cartIndex, addedCount, failedItems, attempts,
          now, cache, lastOp, lastSet,
          hookState, calls>>

normVars  == <<nameIn, nameOut, npc>>
roundVars == <<amountIn, unitIn, amountOut, rpc, unitOut>>
aggVars   == <<pc, day, meal, iterating, lines, ingredientMap, result,
               history, ncalls>>
ollamaVars == <<gpc, daysOfWeek, genDay, inFlight, requested, mealPlan, thrown>>
apiVars    == <<route, apc, caught, responses>>
cartVars   == <<cpc, ingredients, cartIndex, addedCount, failedItems, attempts>>
cacheVars  == <<now, cache, lastOp, lastSet>>
hookVars   == <<hookState, calls>>
serviceVars == <<ollamaVars, apiVars, cartVars, cacheVars, hookVars>>
engineVars == <<normVars, roundVars, aggVars>>

(***************************************************************************)
(* Bounds of the model.                                                    *)
(***************************************************************************)
MaxNameWords == 3
MaxDays == 1
MaxLines == 4

(***************************************************************************)
(* Characters and strings.                                                 *)
(***************************************************************************)
Uppers == <<"A","B","C","D","E","F","G","H","I","J","K","L","M",
            "N","O","P","Q","R","S","T","U","V","W","X","Y","Z">>
Lowers == <<"a","b","c","d","e","f","g","h","i","j","k","l","m",
            "n","o","p","q","r","s","t","u","v","w","x","y","z">>

WhiteSpace == {" ", "\t"}

LowerChar(c) ==
    IF \E i \in 1..Len(Uppers) : Uppers[i] = c
    THEN Lowers[CHOOSE i \in 1..Len(Uppers) : Uppers[i] = c]
    ELSE c

toLowerCase(s) == [i \in 1..Len(s) |-> LowerChar(s[i])]

RECURSIVE TrimStart(_)
TrimStart(s) ==
    IF s # <<>> /\ s[1] \in WhiteSpace THEN TrimStart(Tail(s)) ELSE s

RECURSIVE TrimEnd(_)
TrimEnd(s) ==
    IF s # <<>> /\ s[Len(s)] \in WhiteSpace
    THEN TrimEnd(SubSeq(s, 1, Len(s) - 1)) ELSE s

trim(s) == TrimEnd(TrimStart(s))

\* .replace(/\s+/g, ' '): every maximal run of white space becomes one blank
RECURSIVE CollapseWhiteSpace(_)
CollapseWhiteSpace(s) ==
    IF s = <<>> THEN <<>>
    ELSE IF s[1] \in WhiteSpace
         THEN <<" ">> \o CollapseWhiteSpace(TrimStart(s))
         ELSE <<s[1]>> \o CollapseWhiteSpace(Tail(s))

StartsWith(s, p) == Len(p) <= Len(s) /\ SubSeq(s, 1, Len(p)) = p
EndsWith(s, p) == Len(p) <= Len(s) /\ SubSeq(s, Len(s) - Len(p) + 1, Len(s)) = p
DropFirst(s, k) == SubSeq(s, k + 1, Len(s))
DropLast(s, k) == SubSeq(s, 1, Len(s) - k)

(***************************************************************************)
(* normalizeIngredientName                                                 *)
(***************************************************************************)
fresh   == <<"f","r","e","s","h">>
dried   == <<"d","r","i","e","d">>
chopped == <<"c","h","o","p","p","e","d">>
minced  == <<"m","i","n","c","e","d">>
sliced  == <<"s","l","i","c","e","d">>
diced   == <<"d","i","c","e","d">>

Descriptors == <<fresh, dried, chopped, minced, sliced, diced>>

\* the alternative of (fresh|dried|...) that matches: the first in the
\* order of the alternation
LeadingDescriptor(s) ==
    LET I == {i \in 1..Len(Descriptors) :
                 /\ StartsWith(s, Descriptors[i])
                 /\ Len(s) > Len(Descriptors[i])
                 /\ s[Len(Descriptors[i]) + 1] \in WhiteSpace}
    IN IF I = {} THEN 0 ELSE CHOOSE i \in I : \A j \in I : i <= j

\* .replace(/^(fresh|dried|chopped|minced|sliced|diced)\s+/g, ''): '^' matches
\* at index 0 only, so the replacement happens at most once
StripLeadingDescriptor(s) ==
    LET i == LeadingDescriptor(s)
    IN IF i = 0 THEN s ELSE TrimStart(DropFirst(s, Len(Descriptors[i])))

TrailingDescriptor(s) ==
    LET I == {i \in 1..Len(Descriptors) :
                 /\ EndsWith(s, Descriptors[i])
                 /\ Len(s) > Len(Descriptors[i])
                 /\ s[Len(s) - Len(Descriptors[i])] \in WhiteSpace}
    IN IF I = {} THEN 0 ELSE CHOOSE i \in I : \A j \in I : i <= j

\* .replace(/\s+(fresh|dried|chopped|minced|sliced|diced)$/g, ''): '$' matches
\* at the end only, so the replacement happens at most once
StripTrailingDescriptor(s) ==
    LET i == TrailingDescriptor(s)
    IN IF i = 0 THEN s ELSE TrimEnd(DropLast(s, Len(Descriptors[i])))

normalizeIngredientName(name) ==
    StripTrailingDescriptor(
        StripLeadingDescriptor(
            CollapseWhiteSpace(trim(toLowerCase(name)))))

(***************************************************************************)
(* Ingredient names given to normalizeIngredientName: one to MaxNameWords  *)
(* words, separated by white space, with or without surrounding blanks.    *)
(***************************************************************************)
onion  == <<"o","n","i","o","n">>
garlic == <<"g","a","r","l","i","c">>

NameWords ==
    { <<"F","r","e","s","h">>, <<"C","h","o","p","p","e","d">>, diced,
      <<"O","n","i","o","n">>, garlic }

NameSeparators == { <<" ">>, <<" ", "\t">> }
NamePadding    == { <<>>, <<" ">> }

RECURSIVE JoinWords(_, _)
JoinWords(ws, seps) ==
    IF Len(ws) = 1 THEN ws[1]
    ELSE ws[1] \o seps[1] \o JoinWords(Tail(ws), Tail(seps))

NameInputs ==
    UNION { { lead \o JoinWords(ws, seps) \o trail :
                ws \in [1..k -> NameWords],
                seps \in [1..(k - 1) -> NameSeparators],
                lead \in NamePadding, trail \in NamePadding }
            : k \in 1..MaxNameWords }

\* names that carry a variety word
yellow == <<"y","e","l","l","o","w">>
YellowOnion == yellow \o <<" ">> \o <<"O","n","i","o","n">>
VarietyNames == {YellowOnion, yellow \o <<" ">> \o onion}

(***************************************************************************)
(* Numbers.  An amount is the exact rational n/d, d > 0, in lowest terms.  *)
(***************************************************************************)
RECURSIVE GCD(_, _)
GCD(a, b) == IF b = 0 THEN a ELSE GCD(b, a % b)

Abs(x) == IF x < 0 THEN -x ELSE x

Rat(n, d) ==
    LET k == GCD(Abs(n), d)
    IN [n |-> n \div k, d |-> d \div k]

Num(k) == [n |-> k, d |-> 1]

Add(x, y) ==
    LET k == GCD(x.d, y.d)
    IN Rat(x.n * (y.d \div k) + y.n * (x.d \div k), x.d * (y.d \div k))

Sub(x, y) == Add(x, [n |-> -y.n, d |-> y.d])

\* cross-reduced, so that no intermediate product is larger than the result
Mul(x, y) ==
    LET a == Rat(x.n, y.d)
        b == Rat(y.n, x.d)
    IN [n |-> a.n * b.n, d |-> a.d * b.d]

\* y > 0
Div(x, y) == Mul(x, [n |-> y.d, d |-> y.n])

Geq(x, y) == Sub(x, y).n >= 0
Less(x, y) == Sub(x, y).n < 0

\* Math.ceil
MathCeil(x) == Num(-((-x.n) \div x.d))

\* Math.round, used by no code path of the program
MathRound(x) == Num((2 * x.n + x.d) \div (2 * x.d))

(***************************************************************************)
(* Units                                                                   *)
(***************************************************************************)
cup    == <<"c","u","p">>
gram_g == <<"g">>
lb     == <<"l","b">>
clove  == <<"c","l","o","v","e">>
slice  == <<"s","l","i","c","e">>
qt     == <<"q","t">>
quarts == <<"q","u","a","r","t","s">>
tbsp   == <<"t","b","s","p">>
tsp    == <<"t","s","p">>
ml     == <<"m","l">>
liter_l == <<"l">>
oz     == <<"o","z">>
kg     == <<"k","g">>
pinch  == <<"p","i","n","c","h">>
EmptyString == <<>>

tablespoon == <<"t","a","b","l","e","s","p","o","o","n">>
teaspoon   == <<"t","e","a","s","p","o","o","n">>
ounce      == <<"o","u","n","c","e">>
pound      == <<"p","o","u","n","d">>
gram       == <<"g","r","a","m">>
kilogram   == <<"k","i","l","o","g","r","a","m">>
milliliter == <<"m","i","l","l","i","l","i","t","e","r">>
liter      == <<"l","i","t","e","r">>

Plural(w) == w \o <<"s">>

(***************************************************************************)
(* normalizeUnit and convertToBaseUnit.  A lookup table is an object       *)
(* literal: a sequence of <<key, value>> pairs for its own properties, no  *)
(* key twice, and behind them the properties every object literal inherits *)
(* from Object.prototype.  table[key] finds an own property first and an   *)
(* inherited one next.  Of the inherited names only "constructor" and      *)
(* "__proto__" are their own lower case, so only they can be asked for     *)
(* after toLowerCase; their values are a function and an object, which are *)
(* truthy and are no strings.                                              *)
(***************************************************************************)
constructor == <<"c","o","n","s","t","r","u","c","t","o","r">>
proto       == <<"_","_","p","r","o","t","o","_","_">>

FunctionObject  == <<"function", "Object">>
ObjectPrototype == <<"object", "Object.prototype">>

IsString(value) == value \notin {FunctionObject, ObjectPrototype}

InheritedProperties ==
    << <<constructor, FunctionObject>>, <<proto, ObjectPrototype>> >>

HasOwn(table, key) == \E i \in 1..Len(table) : table[i][1] = key
HasKey(table, key) == HasOwn(table, key) \/ HasOwn(InheritedProperties, key)
Lookup(table, key) ==
    LET from == IF HasOwn(table, key) THEN table ELSE InheritedProperties
    IN from[CHOOSE i \in 1..Len(from) : from[i][1] = key][2]

unitMap ==
    << <<tablespoon, tbsp>>, <<Plural(tablespoon), tbsp>>,
       <<teaspoon, tsp>>, <<Plural(teaspoon), tsp>>,
       <<cup, cup>>, <<Plural(cup), cup>>,
       <<ounce, oz>>, <<Plural(ounce), oz>>,
       <<pound, lb>>, <<Plural(pound), lb>>,
       <<gram, gram_g>>, <<Plural(gram), gram_g>>,
       <<kilogram, kg>>, <<Plural(kilogram), kg>>,
       <<milliliter, ml>>, <<Plural(milliliter), ml>>,
       <<liter, liter_l>>, <<Plural(liter), liter_l>>,
       <<clove, clove>>, <<Plural(clove), clove>>,
       <<slice, slice>>, <<Plural(slice), slice>> >>

\* unitMap[normalized] || normalized: every value found is truthy
normalizeUnit(unit) ==
    LET normalized == trim(toLowerCase(unit))
    IN IF HasKey(unitMap, normalized) THEN Lookup(unitMap, normalized)
       ELSE normalized

\* unit.toLowerCase is not a function: line 208 on a value that is no string
normalizeUnitThrows(unit) == ~IsString(unit)

volumeConversions ==
    << <<tbsp, Rat(1, 16)>>, <<tsp, Rat(1, 48)>>, <<cup, Num(1)>>,
       <<ml, Rat(1, 240)>>, <<liter_l, Rat(4227, 1000)>> >>

weightConversions ==
    << <<oz, Rat(2835, 100)>>, <<lb, Rat(45359, 100)>>, <<gram_g, Num(1)>>,
       <<kg, Num(1000)>> >>

\* line 274 returning the unit as it was passed
convertToBaseUnitKeepsUnit(amount, unit) ==
    LET normalizedUnit == normalizeUnit(unit)
    IN IF HasKey(volumeConversions, normalizedUnit)
       THEN [amount |-> Mul(amount, Lookup(volumeConversions, normalizedUnit)),
             unit |-> cup]
       ELSE IF HasKey(weightConversions, normalizedUnit)
       THEN [amount |-> Mul(amount, Lookup(weightConversions, normalizedUnit)),
             unit |-> gram_g]
       ELSE [amount |-> amount, unit |-> unit]

\* the tables of lines 238-254 with a metric cup: 1 ml = 1/250 cup
volumeConversionsMetricCup ==
    << <<tbsp, Rat(1, 16)>>, <<tsp, Rat(1, 48)>>, <<cup, Num(1)>>,
       <<ml, Rat(1, 250)>>, <<liter_l, Num(4)>> >>

convertToBaseUnitMetricCup(amount, unit) ==
    LET normalizedUnit == normalizeUnit(unit)
    IN IF HasKey(volumeConversionsMetricCup, normalizedUnit)
       THEN [amount |-> Mul(amount, Lookup(volumeConversionsMetricCup, normalizedUnit)),
             unit |-> cup]
       ELSE IF HasKey(weightConversions, normalizedUnit)
       THEN [amount |-> Mul(amount, Lookup(weightConversions, normalizedUnit)),
             unit |-> gram_g]
       ELSE [amount |-> amount, unit |-> normalizedUnit]

convertToBaseUnit(amount, unit) ==
    LET normalizedUnit == normalizeUnit(unit)
    IN IF HasKey(volumeConversions, normalizedUnit)
       THEN [amount |-> Mul(amount, Lookup(volumeConversions, normalizedUnit)),
             unit |-> cup]
       ELSE IF HasKey(weightConversions, normalizedUnit)
       THEN [amount |-> Mul(amount, Lookup(weightConversions, normalizedUnit)),
             unit |-> gram_g]
       ELSE [amount |-> amount, unit |-> normalizedUnit]

(***************************************************************************)
(* roundAmount                                                             *)
(***************************************************************************)
roundAmountNearest(amount, unit) ==
    IF unit = cup THEN Div(MathRound(Mul(amount, Num(4))), Num(4))
    ELSE IF unit = gram_g THEN Mul(MathRound(Div(amount, Num(10))), Num(10))
    ELSE IF unit = lb THEN Div(MathRound(Mul(amount, Num(4))), Num(4))
    ELSE IF unit = clove \/ unit = slice \/ unit = EmptyString THEN MathRound(amount)
    ELSE Div(MathRound(Mul(amount, Num(100))), Num(100))

roundAmount(amount, unit) ==
    IF unit = cup THEN Div(MathCeil(Mul(amount, Num(4))), Num(4))
    ELSE IF unit = gram_g THEN Mul(MathCeil(Div(amount, Num(10))), Num(10))
    ELSE IF unit = lb THEN Div(MathCeil(Mul(amount, Num(4))), Num(4))
    ELSE IF unit = clove \/ unit = slice \/ unit = EmptyString THEN MathCeil(amount)
    ELSE Div(MathCeil(Mul(amount, Num(100))), Num(100))

(***************************************************************************)
(* Arguments given to roundAmount: the non-negative amounts n/d with       *)
(* n <= MaxRoundNumerator and d one of RoundDenominators, and the units    *)
(* with a rule of their own next to units without one.                     *)
(***************************************************************************)
MaxRoundNumerator == 40

RoundDenominators == {1, 3, 4, 10, 16, 48, 100}

RoundAmountInputs ==
    { Rat(n, d) : n \in 0..MaxRoundNumerator, d \in RoundDenominators }

RoundUnitInputs ==
    { cup, gram_g, lb, clove, slice, EmptyString, qt, quarts, tbsp, pinch,
      <<"C","u","p">>, <<"c","l","o","v","e","s">> }

(***************************************************************************)
(* String.prototype.localeCompare on strings of unaccented letters, as the *)
(* default collation orders them: first by the letters without regard to   *)
(* case, a proper prefix before the longer string; then, the letters being *)
(* the same, by case at the first difference, lower case first.            *)
(***************************************************************************)
LetterRank(c) == CHOOSE i \in 1..Len(Lowers) : Lowers[i] = LowerChar(c)
IsUpper(c) == \E i \in 1..Len(Uppers) : Uppers[i] = c

RECURSIVE ComparePrimary(_, _)
ComparePrimary(a, b) ==
    IF a = <<>> /\ b = <<>> THEN 0
    ELSE IF a = <<>> THEN -1
    ELSE IF b = <<>> THEN 1
    ELSE IF LetterRank(a[1]) < LetterRank(b[1]) THEN -1
    ELSE IF LetterRank(a[1]) > LetterRank(b[1]) THEN 1
    ELSE ComparePrimary(Tail(a), Tail(b))

RECURSIVE CompareCase(_, _)
CompareCase(a, b) ==
    IF a = <<>> \/ b = <<>> THEN 0
    ELSE IF ~IsUpper(a[1]) /\ IsUpper(b[1]) THEN -1
    ELSE IF IsUpper(a[1]) /\ ~IsUpper(b[1]) THEN 1
    ELSE CompareCase(Tail(a), Tail(b))

\* comparison by UTF-16 code units, which no code path of the program uses
CompareCodeUnits(a, b) ==
    LET CodeUnit(c) == IF IsUpper(c) THEN LetterRank(c) ELSE Len(Uppers) + LetterRank(c)
        Diff == {i \in 1..Len(a) : i <= Len(b) /\ a[i] # b[i]}
    IN IF Diff = {}
       THEN IF Len(a) < Len(b) THEN -1 ELSE IF Len(a) > Len(b) THEN 1 ELSE 0
       ELSE LET i == CHOOSE i \in Diff : \A j \in Diff : i <= j
            IN IF CodeUnit(a[i]) < CodeUnit(b[i]) THEN -1 ELSE 1

localeCompare(a, b) ==
    LET p == ComparePrimary(a, b)
    IN IF p # 0 THEN p ELSE CompareCase(a, b)

(***************************************************************************)
(* Array.prototype.sort with the comparator of line 413: a stable sort.    *)
(***************************************************************************)
CompareAisles(a, b) == localeCompare(a.aisle, b.aisle)

\* a sort that is not stable: x goes before the elements that compare equal
InsertSortedBeforeEqual(sorted, x) ==
    LET After == {i \in 1..Len(sorted) : CompareAisles(sorted[i], x) >= 0}
        at == IF After = {} THEN Len(sorted) + 1
              ELSE CHOOSE i \in After : \A j \in After : i <= j
    IN SubSeq(sorted, 1, at - 1) \o <<x>> \o SubSeq(sorted, at, Len(sorted))

\* x goes before the first element that compares greater than x
InsertSorted(sorted, x) ==
    LET After == {i \in 1..Len(sorted) : CompareAisles(sorted[i], x) > 0}
        at == IF After = {} THEN Len(sorted) + 1
              ELSE CHOOSE i \in After : \A j \in After : i <= j
    IN SubSeq(sorted, 1, at - 1) \o <<x>> \o SubSeq(sorted, at, Len(sorted))

RECURSIVE SortFrom(_, _)
SortFrom(sorted, rest) ==
    IF rest = <<>> THEN sorted
    ELSE SortFrom(InsertSorted(sorted, Head(rest)), Tail(rest))

sort(aggregated) == SortFrom(<<>>, aggregated)

(***************************************************************************)
(* aggregateIngredients                                                    *)
(***************************************************************************)
Other   == <<"O","t","h","e","r">>
Produce == <<"P","r","o","d","u","c","e">>
Dairy   == <<"D","a","i","r","y">>
dairy   == <<"d","a","i","r","y">>

\* deduplication by the name as written
KeyOfRawName(ingredient) == ingredient.name

\* const key = normalizeIngredientName(ingredient.name)
KeyOf(ingredient) == normalizeIngredientName(ingredient.name)

\* ingredientMap is the sequence of [key, value] in insertion order
MapHas(map, key) == \E i \in 1..Len(map) : map[i].key = key
MapIndex(map, key) == CHOOSE i \in 1..Len(map) : map[i].key = key

\* the else branch of line 371: the first line of a key
NewEntry(ingredient) ==
    LET converted == convertToBaseUnit(ingredient.amount, ingredient.unit)
    IN [name |-> ingredient.name,
        amount |-> converted.amount,
        unit |-> converted.unit,
        aisle |-> IF ingredient.aisle = EmptyString THEN Other ELSE ingredient.aisle,
        originalStrings |-> <<ingredient.original>>]

\* line 360 adding the new line's amount as written
MergeEntryAsWrittenSameUnit(existing, ingredient) ==
    LET existingBase == convertToBaseUnit(existing.amount, existing.unit)
        newBase == convertToBaseUnit(ingredient.amount, ingredient.unit)
    IN IF existingBase.unit = newBase.unit
       THEN [existing EXCEPT !.amount = Add(existingBase.amount, ingredient.amount),
                             !.unit = existingBase.unit,
                             !.originalStrings = Append(@, ingredient.original)]
       ELSE [existing EXCEPT !.amount = Add(existingBase.amount, newBase.amount),
                             !.originalStrings = Append(@, ingredient.original)]

\* line 366 adding the new line's amount as written
MergeEntryAsWrittenOtherUnit(existing, ingredient) ==
    LET existingBase == convertToBaseUnit(existing.amount, existing.unit)
        newBase == convertToBaseUnit(ingredient.amount, ingredient.unit)
    IN IF existingBase.unit = newBase.unit
       THEN [existing EXCEPT !.amount = Add(existingBase.amount, newBase.amount),
                             !.unit = existingBase.unit,
                             !.originalStrings = Append(@, ingredient.original)]
       ELSE [existing EXCEPT !.amount = Add(existingBase.amount, ingredient.amount),
                             !.originalStrings = Append(@, ingredient.original)]

\* lines 360 and 366 storing the new line's amount in place of the sum
MergeEntryOverwritesAmount(existing, ingredient) ==
    LET existingBase == convertToBaseUnit(existing.amount, existing.unit)
        newBase == convertToBaseUnit(ingredient.amount, ingredient.unit)
    IN IF existingBase.unit = newBase.unit
       THEN [existing EXCEPT !.amount = newBase.amount,
                             !.unit = existingBase.unit,
                             !.originalStrings = Append(@, ingredient.original)]
       ELSE [existing EXCEPT !.amount = newBase.amount,
                             !.originalStrings = Append(@, ingredient.original)]

\* line 369 moved into the branch of line 357: the text is kept on a unit match only
MergeEntryKeepsTextOnMatch(existing, ingredient) ==
    LET existingBase == convertToBaseUnit(existing.amount, existing.unit)
        newBase == convertToBaseUnit(ingredient.amount, ingredient.unit)
        sum == Add(existingBase.amount, newBase.amount)
    IN IF existingBase.unit = newBase.unit
       THEN [existing EXCEPT !.amount = sum,
                             !.unit = existingBase.unit,
                             !.originalStrings = Append(@, ingredient.original)]
       ELSE [existing EXCEPT !.amount = sum]

\* a merge that takes the name and the aisle of the line merged
MergeEntryTakesLastNameAndAisle(existing, ingredient) ==
    LET existingBase == convertToBaseUnit(existing.amount, existing.unit)
        newBase == convertToBaseUnit(ingredient.amount, ingredient.unit)
        sum == Add(existingBase.amount, newBase.amount)
    IN IF existingBase.unit = newBase.unit
       THEN [existing EXCEPT !.name = ingredient.name,
                             !.aisle = ingredient.aisle,
                             !.amount = sum,
                             !.unit = existingBase.unit,
                             !.originalStrings = Append(@, ingredient.original)]
       ELSE [existing EXCEPT !.name = ingredient.name,
                             !.aisle = ingredient.aisle,
                             !.amount = sum,
                             !.originalStrings = Append(@, ingredient.original)]

\* lines 360 and 366 with - for +
MergeEntrySubtracts(existing, ingredient) ==
    LET existingBase == convertToBaseUnit(existing.amount, existing.unit)
        newBase == convertToBaseUnit(ingredient.amount, ingredient.unit)
        difference == Sub(existingBase.amount, newBase.amount)
    IN IF existingBase.unit = newBase.unit
       THEN [existing EXCEPT !.amount = difference,
                             !.unit = existingBase.unit,
                             !.originalStrings = Append(@, ingredient.original)]
       ELSE [existing EXCEPT !.amount = difference,
                             !.originalStrings = Append(@, ingredient.original)]

\* the running sum rounded at every merge
MergeEntryRoundsRunningSum(existing, ingredient) ==
    LET existingBase == convertToBaseUnit(existing.amount, existing.unit)
        newBase == convertToBaseUnit(ingredient.amount, ingredient.unit)
        sum == roundAmount(Add(roundAmount(existingBase.amount, existingBase.unit),
                               newBase.amount), existingBase.unit)
    IN IF existingBase.unit = newBase.unit
       THEN [existing EXCEPT !.amount = sum,
                             !.unit = existingBase.unit,
                             !.originalStrings = Append(@, ingredient.original)]
       ELSE [existing EXCEPT !.amount = sum,
                             !.originalStrings = Append(@, ingredient.original)]

\* the then branch of line 347: a later line of a key
MergeEntry(existing, ingredient) ==
    LET existingBase == convertToBaseUnit(existing.amount, existing.unit)
        newBase == convertToBaseUnit(ingredient.amount, ingredient.unit)
        sum == Add(existingBase.amount, newBase.amount)
    IN IF existingBase.unit = newBase.unit
       THEN [existing EXCEPT !.amount = sum,
                             !.unit = existingBase.unit,
                             !.originalStrings = Append(@, ingredient.original)]
       ELSE [existing EXCEPT !.amount = sum,
                             !.originalStrings = Append(@, ingredient.original)]

\* lines 349-350 on an aggregate whose unit is no string: convertToBaseUnit
\* calls normalizeUnit, which throws
AddIngredientThrows(map, ingredient) ==
    LET key == KeyOf(ingredient)
    IN MapHas(map, key)
       /\ normalizeUnitThrows(map[MapIndex(map, key)].value.unit)

\* the body of the innermost forEach, lines 341-382
AddIngredient(map, ingredient) ==
    LET key == KeyOf(ingredient)
    IN IF MapHas(map, key)
       THEN [map EXCEPT ![MapIndex(map, key)].value = MergeEntry(@, ingredient)]
       ELSE Append(map, [key |-> key, value |-> NewEntry(ingredient)])

\* line 389 with > for >=
ReExpandAboveFourCups(ing) ==
    IF ing.unit = cup /\ ~Geq(Num(4), ing.amount)
    THEN [ing EXCEPT !.amount = roundAmount(Div(ing.amount, Num(4)), qt),
                     !.unit = quarts]
    ELSE IF ing.unit = gram_g /\ Geq(ing.amount, Rat(45359, 100))
    THEN [ing EXCEPT !.amount = roundAmount(Div(ing.amount, Rat(45359, 100)), lb),
                     !.unit = lb]
    ELSE [ing EXCEPT !.amount = roundAmount(ing.amount, ing.unit)]

\* line 398 with > for >=
ReExpandAboveOnePound(ing) ==
    IF ing.unit = cup /\ Geq(ing.amount, Num(4))
    THEN [ing EXCEPT !.amount = roundAmount(Div(ing.amount, Num(4)), qt),
                     !.unit = quarts]
    ELSE IF ing.unit = gram_g /\ ~Geq(Rat(45359, 100), ing.amount)
    THEN [ing EXCEPT !.amount = roundAmount(Div(ing.amount, Rat(45359, 100)), lb),
                     !.unit = lb]
    ELSE [ing EXCEPT !.amount = roundAmount(ing.amount, ing.unit)]

\* lines 389-395 left out: cups stay cups
ReExpandWeightOnly(ing) ==
    IF ing.unit = gram_g /\ Geq(ing.amount, Rat(45359, 100))
    THEN [ing EXCEPT !.amount = roundAmount(Div(ing.amount, Rat(45359, 100)), lb),
                     !.unit = lb]
    ELSE [ing EXCEPT !.amount = roundAmount(ing.amount, ing.unit)]

\* amounts rounded to the nearest step instead of up
ReExpandAndRoundNearest(ing) ==
    IF ing.unit = cup /\ Geq(ing.amount, Num(4))
    THEN [ing EXCEPT !.amount = roundAmountNearest(Div(ing.amount, Num(4)), qt),
                     !.unit = quarts]
    ELSE IF ing.unit = gram_g /\ Geq(ing.amount, Rat(45359, 100))
    THEN [ing EXCEPT !.amount = roundAmountNearest(Div(ing.amount, Rat(45359, 100)), lb),
                     !.unit = lb]
    ELSE [ing EXCEPT !.amount = roundAmountNearest(ing.amount, ing.unit)]

\* the callback of .map, lines 387-410
ReExpandAndRound(ing) ==
    IF ing.unit = cup /\ Geq(ing.amount, Num(4))
    THEN [ing EXCEPT !.amount = roundAmount(Div(ing.amount, Num(4)), qt),
                     !.unit = quarts]
    ELSE IF ing.unit = gram_g /\ Geq(ing.amount, Rat(45359, 100))
    THEN [ing EXCEPT !.amount = roundAmount(Div(ing.amount, Rat(45359, 100)), lb),
                     !.unit = lb]
    ELSE [ing EXCEPT !.amount = roundAmount(ing.amount, ing.unit)]

\* Array.from(ingredientMap.values()).map(...)
Aggregated(map) == [i \in 1..Len(map) |-> ReExpandAndRound(map[i].value)]

(***************************************************************************)
(* The ingredient lines of the plans aggregated.  The lines of one plan    *)
(* come from one family: the family of its first line.                     *)
(***************************************************************************)
Line(name, original, amount, unit, aisle) ==
    [name |-> name, original |-> original, amount |-> amount, unit |-> unit,
     aisle |-> aisle]

FreshChoppedOnion ==
    <<"F","r","e","s","h">> \o <<" ">> \o <<"C","h","o","p","p","e","d">>
        \o <<" ">> \o <<"O","n","i","o","n">>
DicedOnion == diced \o <<" ">> \o onion
milk   == <<"m","i","l","k">>
butter == <<"b","u","t","t","e","r">>

flour == <<"f","l","o","u","r">>

OneCupOnion   == Line(onion, "1 cup onion", Num(1), cup, Produce)
TwoTbspOnion  == Line(onion, "2 tbsp onion", Num(2), tbsp, Produce)
HundredGOnion == Line(onion, "100 g onion", Num(100), gram_g, Produce)
OneLbOnion    == Line(onion, "1 lb onion", Num(1), lb, Produce)
ThreeSlicesOnion == Line(onion, "3 slices onion", Num(3), Plural(slice), Produce)

\* lines of one name, the first in a volume unit
VolumeFamily ==
    { OneCupOnion, TwoTbspOnion, HundredGOnion, OneLbOnion, ThreeSlicesOnion }

OneLbFlour      == Line(flour, "1 lb flour", Num(1), lb, Other)
JustUnderLbFlour ==
    Line(flour, "453.58 g flour", Rat(45358, 100), gram_g, Other)
HundredGFlour   == Line(flour, "100 g flour", Num(100), gram_g, Other)
OneOunceFlour   ==
    Line(flour, "1 Ounce flour", Num(1), <<"O","u","n","c","e">>, Other)
OneCupFlour     == Line(flour, "1 cup flour", Num(1), cup, Other)

\* lines of one name, most in a weight unit
WeightFamily ==
    { OneLbFlour, JustUnderLbFlour, HundredGFlour, OneOunceFlour, OneCupFlour }

CupFreshChoppedOnion ==
    Line(FreshChoppedOnion, "1 cup fresh chopped onion", Num(1), cup, Dairy)
TbspDicedOnion == Line(DicedOnion, "2 tbsp diced onion", Num(2), tbsp, Produce)
OneOnion       == Line(onion, "1 onion", Num(1), EmptyString, EmptyString)
ThreeClovesGarlic == Line(garlic, "3 cloves garlic", Num(3), clove, Produce)
CupMilk        == Line(milk, "1 cup milk", Num(1), cup, dairy)
TbspButter     == Line(butter, "2 tbsp butter", Num(2), tbsp, Dairy)

\* lines of several names and aisles
NameFamily ==
    { CupFreshChoppedOnion, TbspDicedOnion, OneOnion, ThreeClovesGarlic,
      CupMilk, TbspButter }

\* units as a recipe source may write them
salt == <<"s","a","l","t">>
PinchSalt       == Line(salt, "1 Pinch salt", Num(1),
                        <<" ","P","i","n","c","h"," ">>, Other)
ConstructorSalt == Line(salt, "1 constructor salt", Num(1), constructor, Other)
ThreeClovesGarlicCapital ==
    Line(garlic, "3 Cloves garlic", Num(3), <<"C","l","o","v","e","s">>, Produce)

SaltToTaste == Line(salt, "salt to taste", Num(0), EmptyString, Other)

UnitFamily == {PinchSalt, ConstructorSalt, ThreeClovesGarlicCapital, SaltToTaste}

IngredientFamilies == {VolumeFamily, WeightFamily, NameFamily, UnitFamily}

IngredientInputs(processed) ==
    IF processed = <<>> THEN UNION IngredientFamilies
    ELSE CHOOSE f \in IngredientFamilies : processed[1] \in f

NormIdle  == nameIn = <<>> /\ nameOut = <<>> /\ npc = "idle"
RoundIdle == amountIn = Num(0) /\ unitIn = <<>>
             /\ amountOut = Num(0) /\ rpc = "idle" /\ unitOut = <<>>
AggIdle   == pc = "idle" /\ day = 0 /\ meal = 0 /\ iterating = FALSE /\ lines = <<>>
             /\ ingredientMap = <<>> /\ result = <<>>
             /\ history = {} /\ ncalls = 0
OllamaIdle == gpc = "idle" /\ daysOfWeek = 0 /\ genDay = 0 /\ inFlight = {}
              /\ requested = <<>> /\ mealPlan = <<>> /\ thrown = ""
NoError == [class |-> "none", message |-> ""]
ApiIdle == route = "" /\ apc = "idle" /\ caught = NoError /\ responses = <<>>
CartIdle == cpc = "idle" /\ ingredients = <<>> /\ cartIndex = 0 /\ addedCount = 0
            /\ failedItems = <<>> /\ attempts = <<>>
CacheIdle == now = 0 /\ cache = <<>> /\ lastOp = [op |-> "none"] /\ lastSet = <<>>
HookIdle == hookState = [data |-> "null", error |-> "null", isLoading |-> FALSE]
            /\ calls = <<>>
ServiceIdle == OllamaIdle /\ ApiIdle /\ CartIdle /\ CacheIdle /\ HookIdle
EngineIdle == NormIdle /\ RoundIdle /\ AggIdle

InitNorm ==
    /\ nameIn \in NameInputs \cup VarietyNames
    /\ nameOut = <<>>
    /\ npc = "call"
    /\ RoundIdle
    /\ AggIdle
    /\ ServiceIdle

NormalizeName ==
    /\ npc = "call"
    /\ nameOut' = normalizeIngredientName(nameIn)
    /\ npc' = "done"
    /\ UNCHANGED <<nameIn, roundVars, aggVars, serviceVars>>

NextNorm == NormalizeName

SpecNorm == InitNorm /\ [][NextNorm]_vars

InitRound ==
    /\ amountIn \in RoundAmountInputs
    /\ unitIn \in RoundUnitInputs
    /\ amountOut = Num(0)
    /\ unitOut = <<>>
    /\ rpc = "call"
    /\ NormIdle
    /\ AggIdle
    /\ ServiceIdle

RoundAmount ==
    /\ rpc = "call"
    /\ amountOut' = roundAmount(amountIn, unitIn)
    /\ rpc' = "done"
    /\ UNCHANGED <<amountIn, unitIn, unitOut, normVars, aggVars, serviceVars>>

NextRound == RoundAmount

SpecRound == InitRound /\ [][NextRound]_vars

(***************************************************************************)
(* One call of normalizeUnit.  The units passed are the spellings of       *)
(* unitMap, the abbreviations and units the table does not list, each as   *)
(* written, capitalized and in capitals, bare and with blanks around.      *)
(***************************************************************************)
UpperChar(c) ==
    IF \E i \in 1..Len(Lowers) : Lowers[i] = c
    THEN Uppers[CHOOSE i \in 1..Len(Lowers) : Lowers[i] = c]
    ELSE c

toUpperCase(str) == [i \in 1..Len(str) |-> UpperChar(str[i])]

Capitalized(str) ==
    IF str = <<>> THEN str ELSE <<UpperChar(Head(str))>> \o Tail(str)

UnitWords ==
    {unitMap[i][1] : i \in 1..Len(unitMap)}
      \cup {tbsp, tsp, ml, liter_l, oz, lb, gram_g, kg}
      \cup {pinch, EmptyString, qt, constructor, proto}

UnitInputs ==
    { before \o word \o after :
        word \in UNION {{w, Capitalized(w), toUpperCase(w)} : w \in UnitWords},
        before \in {<<>>, <<" ">>},
        after \in {<<>>, <<" ">>, <<"\t", " ">>} }

InitUnit ==
    /\ unitIn \in UnitInputs
    /\ unitOut = <<>>
    /\ amountIn = Num(0)
    /\ amountOut = Num(0)
    /\ rpc = "call"
    /\ NormIdle
    /\ AggIdle
    /\ ServiceIdle

NormalizeUnit ==
    /\ rpc = "call"
    /\ unitOut' = normalizeUnit(unitIn)
    /\ rpc' = "done"
    /\ UNCHANGED <<amountIn, unitIn, amountOut, normVars, aggVars, serviceVars>>

NextUnit == NormalizeUnit

SpecUnit == InitUnit /\ [][NextUnit]_vars

(***************************************************************************)
(* One call of convertToBaseUnit, on the amounts given to roundAmount and  *)
(* on units of both tables, spelled out or abbreviated, and of neither.    *)
(***************************************************************************)
ConvertUnitInputs ==
    { tbsp, tsp, cup, ml, liter_l, oz, lb, gram_g, kg,
      Plural(tablespoon), Capitalized(teaspoon), toUpperCase(Plural(cup)),
      <<" ">> \o milliliter, Plural(liter), Capitalized(ounce), Plural(pound),
      gram, Plural(kilogram),
      clove, Plural(slice), EmptyString, pinch, <<" ">> \o Capitalized(pinch),
      qt, quarts, constructor }

InitConvert ==
    /\ amountIn \in RoundAmountInputs
    /\ unitIn \in ConvertUnitInputs
    /\ amountOut = Num(0)
    /\ unitOut = <<>>
    /\ rpc = "call"
    /\ NormIdle
    /\ AggIdle
    /\ ServiceIdle

ConvertToBaseUnit ==
    /\ rpc = "call"
    /\ amountOut' = convertToBaseUnit(amountIn, unitIn).amount
    /\ unitOut' = convertToBaseUnit(amountIn, unitIn).unit
    /\ rpc' = "done"
    /\ UNCHANGED <<amountIn, unitIn, normVars, aggVars, serviceVars>>

NextConvert == ConvertToBaseUnit

SpecConvert == InitConvert /\ [][NextConvert]_vars

(***************************************************************************)
(* One call of aggregateIngredients.  The plan is read as the loops of     *)
(* lines 337-384 read it: day by day, breakfast, lunch, dinner, and the    *)
(* ingredients of a recipe in listed order.  day is the number of days     *)
(* entered, meal the number of recipes of that day left behind, iterating  *)
(* says that the ingredient list of the current recipe is being read.      *)
(***************************************************************************)
Init ==
    /\ pc = "forEach"
    /\ day = 0
    /\ meal = 3
    /\ iterating = FALSE
    /\ lines = <<>>
    /\ ingredientMap = <<>>
    /\ result = <<>>
    /\ history = {}
    /\ ncalls = 0
    /\ NormIdle
    /\ RoundIdle
    /\ ServiceIdle

\* mealPlan.forEach(day => ...): the next day of the plan
NextDay ==
    /\ pc = "forEach"
    /\ meal = 3
    /\ day < MaxDays
    /\ day' = day + 1
    /\ meal' = 0
    /\ UNCHANGED <<pc, iterating, lines, ingredientMap, result, history, ncalls,
                   normVars, roundVars, serviceVars>>

\* if (!recipe.extendedIngredients) return
RecipeWithoutIngredients ==
    /\ pc = "forEach"
    /\ meal < 3
    /\ ~iterating
    /\ meal' = meal + 1
    /\ UNCHANGED <<pc, day, iterating, lines, ingredientMap, result, history, ncalls,
                   normVars, roundVars, serviceVars>>

\* recipe.extendedIngredients.forEach(...): the recipe has a list, empty or not
EnterRecipe ==
    /\ pc = "forEach"
    /\ meal < 3
    /\ ~iterating
    /\ iterating' = TRUE
    /\ UNCHANGED <<pc, day, meal, lines, ingredientMap, result, history, ncalls,
                   normVars, roundVars, serviceVars>>

\* the callback of the innermost forEach on one ingredient line, the line being
\* one of inputs and the plan holding at most bound lines
ReadIngredient(inputs, bound) ==
    /\ pc = "forEach"
    /\ iterating
    /\ Len(lines) < bound
    /\ \E ingredient \in inputs :
          /\ lines' = Append(lines, ingredient)
          /\ IF AddIngredientThrows(ingredientMap, ingredient)
             THEN pc' = "error" /\ UNCHANGED ingredientMap
             ELSE ingredientMap' = AddIngredient(ingredientMap, ingredient)
                  /\ UNCHANGED pc
    /\ UNCHANGED <<day, meal, iterating, result, history, ncalls,
                   normVars, roundVars, serviceVars>>

ProcessIngredient == ReadIngredient(IngredientInputs(lines), MaxLines)

\* the ingredient list of the current recipe is exhausted
EndOfRecipe ==
    /\ pc = "forEach"
    /\ iterating
    /\ meal' = meal + 1
    /\ iterating' = FALSE
    /\ UNCHANGED <<pc, day, lines, ingredientMap, result, history, ncalls,
                   normVars, roundVars, serviceVars>>

\* the plan is exhausted: lines 387-413
RoundAndSort ==
    /\ pc = "forEach"
    /\ meal = 3
    /\ result' = sort(Aggregated(ingredientMap))
    /\ pc' = "done"
    /\ UNCHANGED <<day, meal, iterating, lines, ingredientMap, history, ncalls,
                   normVars, roundVars, serviceVars>>

Next ==
    \/ NextDay
    \/ RecipeWithoutIngredients
    \/ EnterRecipe
    \/ ProcessIngredient
    \/ EndOfRecipe
    \/ RoundAndSort

Spec == Init /\ [][Next]_vars

(***************************************************************************)
(* aggregateIngredients called again and again.  history holds the plan    *)
(* and the list returned of every call completed before the current one,   *)
(* ncalls their number.  A call begins with a new Map (line 334); the      *)
(* module keeps no variable of its own.                                    *)
(***************************************************************************)
MaxCalls == 3
MaxCallLines == 2

CallFamily == {ThreeClovesGarlic, TbspButter}

\* the Map of the call before, not emptied
LeftoverMap == ingredientMap

\* const ingredientMap = new Map()
NewMap == <<>>

StartCall ==
    /\ pc = "done"
    /\ ncalls + 1 < MaxCalls
    /\ history' = history \cup {[plan |-> lines, returned |-> result]}
    /\ ncalls' = ncalls + 1
    /\ pc' = "forEach"
    /\ day' = 0
    /\ meal' = 3
    /\ iterating' = FALSE
    /\ lines' = <<>>
    /\ ingredientMap' = NewMap
    /\ result' = <<>>
    /\ UNCHANGED <<normVars, roundVars, serviceVars>>

ProcessCallIngredient == ReadIngredient(CallFamily, MaxCallLines)

NextCalls ==
    \/ NextDay
    \/ RecipeWithoutIngredients
    \/ EnterRecipe
    \/ ProcessCallIngredient
    \/ EndOfRecipe
    \/ RoundAndSort
    \/ StartCall

SpecCalls == Init /\ [][NextCalls]_vars

(***************************************************************************)
(* Properties                                                              *)
(***************************************************************************)
NormalizedNames(ls) == {normalizeIngredientName(ls[i].name) : i \in 1..Len(ls)}
WrittenNames(ls) == {ls[i].name : i \in 1..Len(ls)}
LinesOfName(ls, key) ==
    {i \in 1..Len(ls) : normalizeIngredientName(ls[i].name) = key}

\* x is the least multiple of step that is >= a
IsLeastMultipleAtLeast(x, step, a) ==
    /\ Div(x, step).d = 1
    /\ Geq(x, a)
    /\ Less(Sub(x, step), a)

\* the emitted entry of the aggregate ingredientMap[i]
Emitted(i) ==
    result[CHOOSE r \in 1..Len(result) : result[r].name = ingredientMap[i].value.name]

\* C1: the output holds exactly one entry per distinct normalized name of the
\* plan: lines share an entry iff their normalized names are equal, so the
\* length is the number of distinct normalized names, at most the number of
\* distinct written names, and at least 1 for a plan with a line.
C1_OneEntryPerNormalizedName ==
    pc = "done" =>
        /\ Len(result) = Cardinality(NormalizedNames(lines))
        /\ {normalizeIngredientName(result[i].name) : i \in 1..Len(result)}
             = NormalizedNames(lines)
        /\ \A i \in 1..Len(result) :
              Len(result[i].originalStrings) =
                 Cardinality(LinesOfName(lines,
                                normalizeIngredientName(result[i].name)))
        /\ Len(result) <= Cardinality(WrittenNames(lines))
        /\ (lines # <<>> => Len(result) >= 1)

\* three lines with three written names and two normalized names gave two entries
C1_Witness ==
    /\ pc = "done"
    /\ Len(lines) = 3
    /\ Cardinality(WrittenNames(lines)) = 3
    /\ Len(result) = 2

\* C2: a line whose base unit is the base unit of the existing aggregate is
\* merged by adding the two base-converted amounts, the unit being that base
\* unit; 2 tbsp + 2 tbsp of one ingredient is emitted as 0.25 cup.
C2_SameBaseUnitAddsConverted ==
    /\ [][Len(lines') = Len(lines) + 1 =>
            LET ingredient == lines'[Len(lines')]
                newBase == convertToBaseUnit(ingredient.amount, ingredient.unit)
            IN \A i \in 1..Len(ingredientMap) :
                 LET existing == ingredientMap[i].value
                     existingBase == convertToBaseUnit(existing.amount, existing.unit)
                 IN (/\ ingredientMap[i].key = normalizeIngredientName(ingredient.name)
                     /\ IsString(existing.unit)
                     /\ existingBase.unit = newBase.unit)
                    => /\ ingredientMap'[i].value.amount
                            = Add(existingBase.amount, newBase.amount)
                       /\ ingredientMap'[i].value.unit = newBase.unit]_vars
    /\ []((pc = "done" /\ lines = <<TwoTbspOnion, TwoTbspOnion>>) =>
            /\ Len(result) = 1
            /\ result[1].amount = Rat(1, 4)
            /\ result[1].unit = cup)

C2_Witness ==
    /\ pc = "done"
    /\ lines = <<TwoTbspOnion, TwoTbspOnion>>
    /\ result[1].amount = Rat(1, 4)

\* C3 as claimed: a line whose base unit differs from the base unit of the
\* existing aggregate is merged by adding its amount as written, not converted,
\* the existing unit being kept.
C3_OtherBaseUnitAddsAsWritten ==
    [][Len(lines') = Len(lines) + 1 =>
         LET ingredient == lines'[Len(lines')]
             newBase == convertToBaseUnit(ingredient.amount, ingredient.unit)
         IN \A i \in 1..Len(ingredientMap) :
              LET existing == ingredientMap[i].value
              IN (/\ ingredientMap[i].key = normalizeIngredientName(ingredient.name)
                  /\ IsString(existing.unit)
                  /\ existing.unit # newBase.unit)
                 => /\ ingredientMap'[i].value.amount
                         = Add(existing.amount, ingredient.amount)
                    /\ ingredientMap'[i].value.unit = existing.unit]_vars

\* C3 as amended: a line whose base unit differs from the base unit of the
\* existing aggregate is merged by adding its base-converted amount (1 lb adds
\* 453.59), the existing unit being kept.
C3_OtherBaseUnitAddsConverted ==
    [][Len(lines') = Len(lines) + 1 =>
         LET ingredient == lines'[Len(lines')]
             newBase == convertToBaseUnit(ingredient.amount, ingredient.unit)
         IN \A i \in 1..Len(ingredientMap) :
              LET existing == ingredientMap[i].value
              IN (/\ ingredientMap[i].key = normalizeIngredientName(ingredient.name)
                  /\ IsString(existing.unit)
                  /\ existing.unit # newBase.unit)
                 => /\ ingredientMap'[i].value.amount
                         = Add(existing.amount, newBase.amount)
                    /\ ingredientMap'[i].value.unit = existing.unit]_vars

\* 1 cup merged with 1 lb: 454.59 cup
C3_Witness ==
    /\ lines = <<OneCupOnion, OneLbOnion>>
    /\ Len(ingredientMap) = 1
    /\ ingredientMap[1].value.amount = Rat(45459, 100)
    /\ ingredientMap[1].value.unit = cup

\* C4 as claimed: 1 cup followed by 100 g of one name is emitted as one entry
\* of amount 101 and unit cup.
C4_CupThenGramsEmittedAsCups ==
    (pc = "done" /\ lines = <<OneCupOnion, HundredGOnion>>) =>
        /\ Len(result) = 1
        /\ result[1].amount = Num(101)
        /\ result[1].unit = cup

\* C4 as amended: 1 cup followed by 100 g of one name merges to 101 cup, which
\* is at least 4 cups and so is emitted as one entry of 25.25 quarts.
C4_CupThenGramsEmittedAsQuarts ==
    (pc = "done" /\ lines = <<OneCupOnion, HundredGOnion>>) =>
        /\ Len(ingredientMap) = 1
        /\ ingredientMap[1].value.amount = Num(101)
        /\ ingredientMap[1].value.unit = cup
        /\ Len(result) = 1
        /\ result[1].amount = Rat(2525, 100)
        /\ result[1].unit = quarts

C4_Witness ==
    /\ pc = "done"
    /\ lines = <<OneCupOnion, HundredGOnion>>
    /\ Len(result) = 1

\* C5: normalizeName("Fresh Chopped Onion") = normalizeName("onion") = "onion":
\* a run of several preparation descriptors is removed.
C5_RunOfDescriptorsRemoved ==
    (npc = "done" /\ nameIn = FreshChoppedOnion)
        => (nameOut = onion /\ normalizeIngredientName(onion) = onion)

\* C6: normalization is idempotent: normalizing a normalized name returns it
\* unchanged, also for names with two or more leading or trailing descriptors.
C6_NormalizeIdempotent ==
    npc = "done" => normalizeIngredientName(nameOut) = nameOut

\* C7: an aggregate of at least 4 cups (4 included) is emitted in quarts, a
\* quarter of the sum rounded up to 2 decimal places; four 1-cup lines are
\* emitted as 1 quarts; an aggregate below 4 cups stays in cups.
C7_CupsToQuarts ==
    pc = "done" =>
        /\ \A i \in 1..Len(ingredientMap) :
              LET sum == ingredientMap[i].value.amount
              IN ingredientMap[i].value.unit = cup =>
                    IF Geq(sum, Num(4))
                    THEN /\ Emitted(i).unit = quarts
                         /\ IsLeastMultipleAtLeast(Emitted(i).amount, Rat(1, 100),
                                                   Div(sum, Num(4)))
                    ELSE Emitted(i).unit = cup
        /\ lines = <<OneCupOnion, OneCupOnion, OneCupOnion, OneCupOnion>> =>
              /\ Len(result) = 1
              /\ result[1].amount = Num(1)
              /\ result[1].unit = quarts

C7_Witness ==
    /\ pc = "done"
    /\ lines = <<OneCupOnion, OneCupOnion, OneCupOnion, OneCupOnion>>
    /\ ingredientMap[1].value.amount = Num(4)
    /\ result[1].unit = quarts

\* C8: an aggregate of at least 453.59 g (453.59 included) is emitted in lb,
\* the sum divided by 453.59 rounded up to the next quarter; exactly 453.59 g
\* is emitted as 1 lb; 453.58 g stays in grams and is emitted as 460 g.
C8_GramsToPounds ==
    pc = "done" =>
        \A i \in 1..Len(ingredientMap) :
           LET sum == ingredientMap[i].value.amount
           IN ingredientMap[i].value.unit = gram_g =>
                 /\ Geq(sum, Rat(45359, 100)) =>
                       /\ Emitted(i).unit = lb
                       /\ IsLeastMultipleAtLeast(Emitted(i).amount, Rat(1, 4),
                                                 Div(sum, Rat(45359, 100)))
                 /\ sum = Rat(45359, 100) =>
                       Emitted(i).amount = Num(1) /\ Emitted(i).unit = lb
                 /\ sum = Rat(45358, 100) =>
                       Emitted(i).amount = Num(460) /\ Emitted(i).unit = gram_g

\* a sum of exactly 453.59 g has been emitted
C8_Witness ==
    /\ pc = "done"
    /\ Len(ingredientMap) = 1
    /\ ingredientMap[1].value.unit = gram_g
    /\ ingredientMap[1].value.amount = Rat(45359, 100)
    /\ result[1].unit = lb

\* the step of a unit's rounding rule, as the specification lists them
RoundingStep(unit) ==
    IF unit = cup \/ unit = lb THEN Rat(1, 4)
    ELSE IF unit = gram_g THEN Num(10)
    ELSE IF unit = clove \/ unit = slice \/ unit = EmptyString THEN Num(1)
    ELSE Rat(1, 100)

C10_SortedByCodeUnits ==
    pc = "done" =>
        \A i \in 1..(Len(result) - 1) :
            CompareCodeUnits(result[i].aisle, result[i + 1].aisle) <= 0

\* C10 as amended: the output is sorted ascending by aisle under a comparison
\* of the letters without regard to case, so that "dairy" is before "Produce".
C10_SortedAlphabetically ==
    pc = "done" =>
        /\ \A i \in 1..(Len(result) - 1) :
              CompareCodeUnits(toLowerCase(result[i].aisle),
                               toLowerCase(result[i + 1].aisle)) <= 0
        /\ \A i, j \in 1..Len(result) :
              (result[i].aisle = dairy /\ result[j].aisle = Produce) => i < j

C10_Witness ==
    /\ pc = "done"
    /\ \E i \in 1..(Len(result) - 1) :
          result[i].aisle = dairy /\ result[i + 1].aisle = Produce

\* the place in the plan of the first line of the normalized name key
FirstLineOfName(ls, key) ==
    CHOOSE i \in LinesOfName(ls, key) : \A j \in LinesOfName(ls, key) : i <= j

\* C11: the aisle sort is stable.  The plan is read forward (day after day,
\* within a day breakfast, lunch, dinner, within a recipe the listed order),
\* the aggregate of a normalized name read for the first time is put behind
\* the aggregates there are, and emitted entries of equal aisle stand in the
\* order in which their names were first read; aggregates
\* first read with aisles Dairy, Produce, Dairy are emitted first Dairy, second
\* Dairy, Produce.
C11_EqualAislesInEncounterOrder ==
    /\ [][/\ day' >= day
          /\ (day' = day /\ meal # 3) => meal' >= meal
          /\ SubSeq(lines', 1, Len(lines)) = lines
          /\ Len(ingredientMap') >= Len(ingredientMap)
          /\ \A i \in 1..Len(ingredientMap) :
                ingredientMap'[i].key = ingredientMap[i].key
          /\ Len(ingredientMap') > Len(ingredientMap) =>
                /\ Len(ingredientMap') = Len(ingredientMap) + 1
                /\ Len(lines') = Len(lines) + 1
                /\ ingredientMap'[Len(ingredientMap')].key
                      = normalizeIngredientName(lines'[Len(lines')].name)
                /\ \A i \in 1..Len(ingredientMap) :
                      ingredientMap[i].key
                         # ingredientMap'[Len(ingredientMap')].key]_vars
    /\ [](pc = "done" =>
             \A i, j \in 1..Len(result) :
                (i < j /\ result[i].aisle = result[j].aisle)
                => FirstLineOfName(lines, normalizeIngredientName(result[i].name))
                     < FirstLineOfName(lines, normalizeIngredientName(result[j].name)))
    /\ []((/\ pc = "done"
           /\ [i \in 1..Len(ingredientMap) |-> ingredientMap[i].value.aisle]
                 = <<Dairy, Produce, Dairy>>)
          => [i \in 1..3 |-> result[i].name]
               = <<ingredientMap[1].value.name, ingredientMap[3].value.name,
                   ingredientMap[2].value.name>>)

\* an onion of aisle Dairy, garlic of aisle Produce and butter of aisle Dairy,
\* read in this order, are emitted onion, butter, garlic
C11_Witness ==
    /\ pc = "done"
    /\ lines = <<CupFreshChoppedOnion, ThreeClovesGarlic, TbspButter>>
    /\ [i \in 1..Len(result) |-> result[i].name] = <<FreshChoppedOnion, butter, garlic>>

\* C12: a line whose unit is in neither conversion table and, normalized, is the
\* unit of the existing aggregate of its name is merged by adding its amount as
\* written, the aggregate keeping its unit; two lines "3 cloves garlic" of
\* amount 3, unit clove and aisle Produce aggregate to the single entry garlic,
\* 6, clove, Produce with both original texts.
C12_SameUnconvertibleUnitAddsPlainly ==
    /\ [][Len(lines') = Len(lines) + 1 =>
            LET ingredient == lines'[Len(lines')]
                unit == normalizeUnit(ingredient.unit)
            IN \A i \in 1..Len(ingredientMap) :
                 LET existing == ingredientMap[i].value
                 IN (/\ ingredientMap[i].key = normalizeIngredientName(ingredient.name)
                     /\ ~HasKey(volumeConversions, unit)
                     /\ ~HasKey(weightConversions, unit)
                     /\ IsString(unit)
                     /\ existing.unit = unit)
                    => /\ ingredientMap'[i].value.amount
                            = Add(existing.amount, ingredient.amount)
                       /\ ingredientMap'[i].value.unit = existing.unit]_vars
    /\ []((pc = "done" /\ lines = <<ThreeClovesGarlic, ThreeClovesGarlic>>) =>
            result = << [name |-> garlic,
                         amount |-> Num(6),
                         unit |-> clove,
                         aisle |-> Produce,
                         originalStrings |-> <<"3 cloves garlic", "3 cloves garlic">>] >>)

C12_Witness ==
    /\ pc = "done"
    /\ lines = <<ThreeClovesGarlic, ThreeClovesGarlic>>
    /\ Len(result) = 1
    /\ result[1].amount = Num(6)
    /\ result[1].unit = clove

\* the original texts of the lines of the normalized name key, in plan order
RECURSIVE OriginalsOfName(_, _)
OriginalsOfName(ls, key) ==
    IF ls = <<>> THEN <<>>
    ELSE IF normalizeIngredientName(Head(ls).name) = key
    THEN <<Head(ls).original>> \o OriginalsOfName(Tail(ls), key)
    ELSE OriginalsOfName(Tail(ls), key)

\* C13: originalStrings of an aggregate is never empty, and originalStrings of
\* every emitted entry is exactly the original texts of the lines of the plan
\* whose normalized name is the entry's key, in the order read; the text of a
\* line is there whether its base unit was that of the aggregate or not.
C13_OriginalStringsAreTheLinesOfTheKey ==
    /\ \A i \in 1..Len(ingredientMap) :
          ingredientMap[i].value.originalStrings # <<>>
    /\ pc = "done" =>
          /\ Len(result) = Len(ingredientMap)
          /\ \A r \in 1..Len(result) :
                /\ result[r].originalStrings # <<>>
                /\ result[r].originalStrings
                     = OriginalsOfName(lines, normalizeIngredientName(result[r].name))

\* a cup line, a slices line and a cup line of onion: three texts on one entry,
\* the second of a line whose unit did not match
C13_Witness ==
    /\ pc = "done"
    /\ lines = <<OneCupOnion, ThreeSlicesOnion, OneCupOnion>>
    /\ Len(result) = 1
    /\ result[1].originalStrings = <<"1 cup onion", "3 slices onion", "1 cup onion">>

\* the first line of the plan whose normalized name is key
FirstOfName(ls, key) == ls[FirstLineOfName(ls, key)]

\* C14: an aggregate is made with the name as written and the aisle of the line
\* read, "Other" when that aisle is the empty string, and no later line changes
\* either; so the name of every aggregate of a plan read to its end is the name
\* of the first line of its key, its aisle the aisle of that line or "Other",
\* and the emitted entry carries both.
C14_NameAndAisleOfFirstLine ==
    /\ [][\A i \in 1..Len(ingredientMap') :
            IF i <= Len(ingredientMap)
            THEN /\ ingredientMap'[i].value.name = ingredientMap[i].value.name
                 /\ ingredientMap'[i].value.aisle = ingredientMap[i].value.aisle
            ELSE LET ingredient == lines'[Len(lines')]
                 IN /\ ingredientMap'[i].value.name = ingredient.name
                    /\ ingredientMap'[i].value.aisle
                         = IF ingredient.aisle = EmptyString THEN Other
                           ELSE ingredient.aisle]_vars
    /\ [](pc = "done" =>
            /\ \A i \in 1..Len(ingredientMap) :
                  LET first == FirstOfName(lines, ingredientMap[i].key)
                  IN /\ ingredientMap[i].value.name = first.name
                     /\ ingredientMap[i].value.aisle
                          = IF first.aisle = EmptyString THEN Other ELSE first.aisle
            /\ {[name |-> result[r].name, aisle |-> result[r].aisle] :
                    r \in 1..Len(result)}
                 = {[name |-> ingredientMap[i].value.name,
                     aisle |-> ingredientMap[i].value.aisle] :
                        i \in 1..Len(ingredientMap)})

\* "onion" without an aisle, then "diced onion" of aisle Produce: the entry is
\* named "onion" and its aisle is "Other"
C14_Witness ==
    /\ pc = "done"
    /\ lines = <<OneOnion, TbspDicedOnion>>
    /\ Len(result) = 1
    /\ result[1].name = onion
    /\ result[1].aisle = Other

\* the unit, as written on a line, is in neither conversion table
Unconvertible(unit) ==
    /\ ~HasKey(volumeConversions, normalizeUnit(unit))
    /\ ~HasKey(weightConversions, normalizeUnit(unit))

ListedUnits ==
    << <<tablespoon, tbsp>>, <<teaspoon, tsp>>, <<cup, cup>>, <<ounce, oz>>,
       <<pound, lb>>, <<gram, gram_g>>, <<kilogram, kg>>, <<milliliter, ml>>,
       <<liter, liter_l>>, <<clove, clove>>, <<slice, slice>> >>

\* C16: normalizeUnit returns, for a listed spelling in the singular or the
\* plural, in any capitalization and with any blanks around it, the
\* abbreviation of that spelling, and for every other unit the unit in lower
\* case and trimmed.
C16_ListedAbbreviatedOthersLowerCasedTrimmed ==
    rpc = "done" =>
        LET written == trim(toLowerCase(unitIn))
            Listed == {i \in 1..Len(ListedUnits) :
                          written \in {ListedUnits[i][1], Plural(ListedUnits[i][1])}}
        IN IF Listed # {}
           THEN \A i \in Listed : unitOut = ListedUnits[i][2]
           ELSE unitOut = written

\* the cups in one of a volume unit and the grams in one of a weight unit
CupsPer(unit) ==
    CASE unit = tbsp -> Rat(1, 16)
      [] unit = tsp -> Rat(1, 48)
      [] unit = cup -> Num(1)
      [] unit = ml -> Rat(1, 240)
      [] unit = liter_l -> Rat(4227, 1000)

GramsPer(unit) ==
    CASE unit = oz -> Rat(2835, 100)
      [] unit = lb -> Rat(45359, 100)
      [] unit = gram_g -> Num(1)
      [] unit = kg -> Num(1000)

VolumeUnits == {tbsp, tsp, cup, ml, liter_l}
WeightUnits == {oz, lb, gram_g, kg}

\* C17: convertToBaseUnit returns the amount of a volume unit multiplied into
\* cups (tbsp by 1/16, tsp by 1/48, cup by 1, ml by 1/240, l by 4.227) with unit
\* cup, the amount of a weight unit multiplied into grams (oz by 28.35, lb by
\* 453.59, g by 1, kg by 1000) with unit g, and for every other unit the amount
\* unchanged with the normalized unit; no unit is both a volume and a weight
\* unit.
C17_ConvertsByFamily ==
    /\ VolumeUnits \cap WeightUnits = {}
    /\ {volumeConversions[i][1] : i \in 1..Len(volumeConversions)} = VolumeUnits
    /\ {weightConversions[i][1] : i \in 1..Len(weightConversions)} = WeightUnits
    /\ rpc = "done" =>
          LET unit == normalizeUnit(unitIn)
          IN IF unit \in VolumeUnits
             THEN amountOut = Mul(amountIn, CupsPer(unit)) /\ unitOut = cup
             ELSE IF unit \in WeightUnits
             THEN amountOut = Mul(amountIn, GramsPer(unit)) /\ unitOut = gram_g
             ELSE amountOut = amountIn /\ unitOut = unit

\* 3 ml have become 1/80 cup, 3 oz 85.05 g, and 3 of " Pinch" stay 3 pinch
C17_Witness ==
    /\ rpc = "done"
    /\ amountIn = Num(3)
    /\ \/ unitIn = <<" ">> \o milliliter /\ amountOut = Rat(1, 80) /\ unitOut = cup
       \/ unitIn = Capitalized(ounce) /\ amountOut = Rat(8505, 100) /\ unitOut = gram_g
       \/ unitIn = <<" ">> \o Capitalized(pinch) /\ amountOut = Num(3) /\ unitOut = pinch

\* C18: the amounts of the lines of a plan being non-negative, the amount of
\* every aggregate and of every emitted entry is non-negative, whatever the
\* units merged and whether the entry has been re-expanded or not.
C18_AmountsNonNegative ==
    (\A k \in 1..Len(lines) : Geq(lines[k].amount, Num(0))) =>
        /\ \A i \in 1..Len(ingredientMap) :
              Geq(ingredientMap[i].value.amount, Num(0))
        /\ \A r \in 1..Len(result) : Geq(result[r].amount, Num(0))

\* grams, a pound and a cup of onion merged and re-expanded to 1.25 lb
C18_Witness ==
    /\ pc = "done"
    /\ lines = <<HundredGOnion, OneLbOnion, OneCupOnion>>
    /\ Len(result) = 1
    /\ result[1].unit = lb
    /\ result[1].amount = Rat(5, 4)

\* C19: aggregateIngredients raises no error: a recipe without an ingredient
\* list and a recipe with an empty one add nothing, a line with a unit that
\* is in no table is read without an error, and a plan without any line, the
\* plan of no days among them, returns the empty list.
C19_NeverRaises ==
    /\ pc # "error"
    /\ (lines = <<>> => ingredientMap = <<>>)
    /\ (pc = "done" /\ lines = <<>>) => result = <<>>

\* the calls completed, the current one among them once it has returned
CompletedCalls ==
    history \cup (IF pc = "done" THEN {[plan |-> lines, returned |-> result]}
                  ELSE {})

MaxDaysOfWeek == 7

ollamaRest == <<engineVars, apiVars, cartVars, cacheVars, hookVars>>

\* the errors generateSingleDay throws: lines 74, 82, 111, 118, 147, 160, and
\* the rejection of fetch (line 54)
DayFailures ==
    { "Ollama API error", "No JSON found in LLM response", "Invalid JSON from LLM",
      "Timeout generating day", "Invalid meal plan format from LLM",
      "Recipe is null or undefined", "fetch failed" }

\* the loop running one day too many
LoopContinuesInclusive(d, n) == d <= n

\* day < daysOfWeek
LoopContinues(d, n) == d < n

\* date: currentDate + dayIndex days
parseSingleDay(dayIndex) == [date |-> dayIndex]

InitOllama ==
    /\ gpc = "loop"
    /\ daysOfWeek \in 0..MaxDaysOfWeek
    /\ genDay = 0
    /\ inFlight = {}
    /\ requested = <<>>
    /\ mealPlan = <<>>
    /\ thrown = ""
    /\ EngineIdle
    /\ ApiIdle /\ CartIdle /\ CacheIdle /\ HookIdle

\* generateSingleDay up to await fetch(...)
IssueRequest ==
    /\ gpc = "loop"
    /\ LoopContinues(genDay, daysOfWeek)
    /\ inFlight' = inFlight \cup {genDay}
    /\ requested' = Append(requested, genDay)
    /\ gpc' = "await"
    /\ UNCHANGED <<daysOfWeek, genDay, mealPlan, thrown, ollamaRest>>

\* the response is read and parsed; mealPlan.push(dayPlan); day++
DayCompletes ==
    /\ gpc = "await"
    /\ inFlight' = inFlight \ {genDay}
    /\ mealPlan' = Append(mealPlan, parseSingleDay(genDay))
    /\ genDay' = genDay + 1
    /\ gpc' = "loop"
    /\ UNCHANGED <<daysOfWeek, requested, thrown, ollamaRest>>

\* generateSingleDay throws: the await of line 37 rethrows and the call ends
DayFails ==
    /\ gpc = "await"
    /\ \E failure \in DayFailures : thrown' = failure
    /\ inFlight' = inFlight \ {genDay}
    /\ gpc' = "error"
    /\ UNCHANGED <<daysOfWeek, genDay, requested, mealPlan, ollamaRest>>

\* return mealPlan
ReturnMealPlan ==
    /\ gpc = "loop"
    /\ ~LoopContinues(genDay, daysOfWeek)
    /\ gpc' = "returned"
    /\ UNCHANGED <<daysOfWeek, genDay, inFlight, requested, mealPlan, thrown,
                   ollamaRest>>

NextOllama ==
    \/ IssueRequest
    \/ DayCompletes
    \/ DayFails
    \/ ReturnMealPlan

SpecOllama == InitOllama /\ [][NextOllama]_vars

\* the plan of the days 0..n-1 in day order
PlanOfDays(n) == [i \in 1..n |-> [date |-> i - 1]]

\* C21: the generator works strictly sequentially: at most one day request is
\* in flight; the request for a day is sent only when no request is in flight
\* and the plan holds the days before it, each completed, in order; and the
\* plan returned holds exactly daysOfWeek entries, the days 0..daysOfWeek-1 in
\* day order.
C21_DaysGeneratedSequentially ==
    /\ [](Cardinality(inFlight) <= 1)
    /\ [][requested' # requested =>
            /\ inFlight = {}
            /\ requested' = Append(requested, Len(requested))
            /\ mealPlan = PlanOfDays(Len(requested))]_vars
    /\ [](gpc = "returned" =>
            /\ Len(mealPlan) = daysOfWeek
            /\ mealPlan = PlanOfDays(daysOfWeek)
            /\ requested = [i \in 1..daysOfWeek |-> i - 1]
            /\ inFlight = {})

C21_Witness ==
    /\ gpc = "returned"
    /\ daysOfWeek = 3
    /\ mealPlan = <<[date |-> 0], [date |-> 1], [date |-> 2]>>
    /\ requested = <<0, 1, 2>>

(***************************************************************************)
(* C22..C27: the aggregation engine again.                                 *)
(***************************************************************************)
\* C22: normalizeIngredientName matches ingredients that differ by a variety
\* word: "yellow Onion" is normalized to the key of "onion".
C22_VarietyWordIgnored ==
    (npc = "done" /\ nameIn = YellowOnion) =>
        nameOut = normalizeIngredientName(onion)

\* C24: convertToBaseUnit is idempotent on its own output: converting the
\* amount and unit it returned succeeds and returns them unchanged, for every
\* amount and unit.
C24_ConvertIdempotent ==
    rpc = "done" =>
        /\ ~normalizeUnitThrows(unitOut)
        /\ convertToBaseUnit(amountOut, unitOut) = [amount |-> amountOut, unit |-> unitOut]

(***************************************************************************)
(* aggregateIngredients on plans of small amounts: tenths of a cup,        *)
(* tablespoons, cups, grams, pounds, cloves and an amount of 0.            *)
(***************************************************************************)
MaxSumLines == 3

TenthCupOnion == Line(onion, "0.1 cup onion", Rat(1, 10), cup, Produce)
TwoCupsOnion  == Line(onion, "2 cups onion", Num(2), Plural(cup), Produce)

SumFamily ==
    { TenthCupOnion, TwoCupsOnion, TwoTbspOnion, OneLbFlour, HundredGFlour,
      ThreeClovesGarlic, SaltToTaste }

ProcessSumIngredient == ReadIngredient(SumFamily, MaxSumLines)

NextSums ==
    \/ NextDay
    \/ RecipeWithoutIngredients
    \/ EnterRecipe
    \/ ProcessSumIngredient
    \/ EndOfRecipe
    \/ RoundAndSort

SpecSums == Init /\ [][NextSums]_vars

\* the lines of a key all have string units of one base unit: one convertible
\* family, or one unconvertible unit
UniformBase(ls, key) ==
    /\ \A k \in LinesOfName(ls, key) : IsString(normalizeUnit(ls[k].unit))
    /\ \A k, l \in LinesOfName(ls, key) :
          convertToBaseUnit(ls[k].amount, ls[k].unit).unit
             = convertToBaseUnit(ls[l].amount, ls[l].unit).unit

\* the exact sum of the base-converted amounts of the lines of a key
RECURSIVE BaseSum(_, _)
BaseSum(ls, key) ==
    IF ls = <<>> THEN Num(0)
    ELSE Add(IF KeyOf(Head(ls)) = key
             THEN convertToBaseUnit(Head(ls).amount, Head(ls).unit).amount
             ELSE Num(0),
             BaseSum(Tail(ls), key))

\* C25: rounding and re-expansion are applied once per aggregate, after all
\* merges: the aggregate holds the exact, unrounded sum of its lines in the base
\* unit; the emitted entry is that sum re-expanded by at most one step (cups to
\* quarts from 4 cups, grams to lb from 453.59 g, nothing further) and rounded
\* once, by the rule of the unit emitted.  Three lines of 0.1 cup give 0.5 cup,
\* not 0.75.
C25_RoundedOnceAfterAllMerges ==
    pc = "done" =>
        /\ \A i \in 1..Len(ingredientMap) :
              LET sum == BaseSum(lines, ingredientMap[i].key)
                  unit == ingredientMap[i].value.unit
              IN UniformBase(lines, ingredientMap[i].key) =>
                    /\ ingredientMap[i].value.amount = sum
                    /\ Emitted(i).unit =
                          IF unit = cup /\ Geq(sum, Num(4)) THEN quarts
                          ELSE IF unit = gram_g /\ Geq(sum, Rat(45359, 100)) THEN lb
                          ELSE unit
                    /\ Emitted(i).amount =
                          IF unit = cup /\ Geq(sum, Num(4))
                          THEN roundAmount(Div(sum, Num(4)), Emitted(i).unit)
                          ELSE IF unit = gram_g /\ Geq(sum, Rat(45359, 100))
                          THEN roundAmount(Div(sum, Rat(45359, 100)), Emitted(i).unit)
                          ELSE roundAmount(sum, Emitted(i).unit)
        /\ lines = <<TenthCupOnion, TenthCupOnion, TenthCupOnion>> =>
              result[1].amount = Rat(1, 2) /\ result[1].unit = cup

C25_Witness ==
    /\ pc = "done"
    /\ lines = <<TenthCupOnion, TenthCupOnion, TenthCupOnion>>
    /\ ingredientMap[1].value.amount = Rat(3, 10)
    /\ result[1].amount = Rat(1, 2)

\* the emitted amount of an aggregate of base unit `unit`, back in that unit
BackToBase(entry, unit) ==
    IF unit = cup /\ entry.unit = quarts THEN Mul(entry.amount, Num(4))
    ELSE IF unit = gram_g /\ entry.unit = lb THEN Mul(entry.amount, Rat(45359, 100))
    ELSE entry.amount

IngredientSchema(line) ==
    /\ Len(line.name) >= 1
    /\ line.original # ""
    /\ Geq(line.amount, Num(0))
    /\ IsString(line.unit)
    /\ IsString(line.aisle)

\* WalmartIngredientSchema (lines 101-105): name of 1 to 200 characters,
\* amount > 0, unit a string of at most 50 characters
WalmartIngredientSchema(item) ==
    /\ IsString(item.name) /\ Len(item.name) >= 1 /\ Len(item.name) <= 200
    /\ ~Geq(Num(0), item.amount)
    /\ IsString(item.unit) /\ Len(item.unit) <= 50

\* C27: every entry of a list aggregated from a plan whose lines
\* IngredientSchema accepts is accepted by WalmartIngredientSchema: its amount
\* is greater than 0.
C27_EmittedItemsAcceptedByCart ==
    (pc = "done" /\ \A k \in 1..Len(lines) : IngredientSchema(lines[k])) =>
        \A r \in 1..Len(result) :
            /\ WalmartIngredientSchema(result[r])
            /\ ~Geq(Num(0), result[r].amount)

(***************************************************************************)
(* The API routes: POST /api/meal-plan (src/app/layout.tsx, lines 65-133), *)
(* POST /api/shopping-list and POST /api/walmart/add-to-cart               *)
(* (src/app/api/shopping-list/route.ts, lines 7-63 and 69-120),            *)
(* GET /api/meal-plan/[id] (src/app/layout.tsx, lines 25-57) and           *)
(* GET /api/shopping-list/[id] (src/unnamed/part_002, lines 4-38), with    *)
(* handleApiError (src/lib/spoonacular.ts, lines 297-374).  responses is   *)
(* the list of the responses sent, each with its route, HTTP status and    *)
(* JSON body; a body is the record of the fields the claims are about.     *)
(* caught is the value thrown inside the try block of the current request. *)
(***************************************************************************)
MaxRequests == 2

PostMealPlan == "POST /api/meal-plan"
PostShoppingList == "POST /api/shopping-list"
PostAddToCart == "POST /api/walmart/add-to-cart"
GetMealPlan == "GET /api/meal-plan/[id]"
GetShoppingList == "GET /api/shopping-list/[id]"

PostRoutes == {PostMealPlan, PostShoppingList, PostAddToCart}
GetRoutes == {GetMealPlan, GetShoppingList}

\* s.includes(t)
Includes(s, t) ==
    \E i \in 1..(Len(s) - Len(t) + 1) : SubSeq(s, i, i + Len(t) - 1) = t

\* new Error(message), or an instance of a subclass that is not ApiError
Error(message) == [class |-> "Error", message |-> message]

\* ApiError.validation(message, details)
ApiErrorValidation(message) ==
    [class |-> "ApiError", message |-> message, statusCode |-> 400,
     code |-> "VALIDATION_ERROR"]

\* a value thrown that is no instance of Error
NotAnError == [class |-> "other", message |-> ""]

\* request.json() on a body that is not JSON
BodySyntaxError == Error("Unexpected end of JSON input")

\* a rejected Prisma call
DatabaseError == Error("Can't reach database server")

\* what the work of a POST route throws once the request is validated
WorkErrors(r) ==
    IF r = PostMealPlan
    THEN { Error("Ollama API error: Not Found"),
           Error("No JSON found in LLM response"),
           Error("Invalid JSON from LLM"),
           Error("Timeout generating day 1. Try using a faster model like llama3.2"),
           Error("fetch failed"),
           Error("Failed to generate meal plan. Please try again."),
           DatabaseError }
    ELSE IF r = PostShoppingList
    THEN { Error("unit.toLowerCase is not a function"), DatabaseError, NotAnError }
    ELSE { Error("Puppeteer browser not found. Please run: npx puppeteer browsers install chrome"),
           Error("Walmart automation timed out. The Walmart website may be slow or unresponsive. Please try again."),
           Error("Failed to navigate to Walmart. Please check your internet connection and try again."),
           Error("Browser session was interrupted. Please try again."),
           Error("Failed to add items to Walmart cart. Please try again or add items manually."),
           Error(""), NotAnError }

ErrorBody(error, code) == [success |-> FALSE, error |-> error, code |-> code]

\* handleApiError(error): the status and the body of the response
handleApiError(error) ==
    IF error.class = "ZodError"
    THEN [status |-> 400, body |-> ErrorBody("Validation failed", "VALIDATION_ERROR")]
    ELSE IF error.class = "ApiError"
    THEN [status |-> error.statusCode, body |-> ErrorBody(error.message, error.code)]
    ELSE IF error.class = "Error"
    THEN IF Includes(error.message, "fetch") \/ Includes(error.message, "API")
         THEN [status |-> 502,
               body |-> ErrorBody("External API request failed", "EXTERNAL_API_ERROR")]
         ELSE [status |-> 500,
               body |-> ErrorBody(IF error.message = "" THEN "Internal server error"
                                  ELSE error.message,
                                  "INTERNAL_SERVER_ERROR")]
    ELSE [status |-> 500,
          body |-> ErrorBody("An unexpected error occurred", "INTERNAL_SERVER_ERROR")]

\* the responses of a GET route: lines 43-49, 36-41 and 50-56 of
\* src/app/layout.tsx, lines 25-30, 18-23 and 31-36 of src/unnamed/part_002
GetResponse(r, outcome) ==
    IF outcome = "found" THEN [status |-> 200, body |-> [success |-> TRUE]]
    ELSE IF outcome = "missing"
    THEN [status |-> 404,
          body |-> [error |-> IF r = GetMealPlan THEN "Meal plan not found"
                              ELSE "Shopping list not found"]]
    ELSE [status |-> 500,
          body |-> [error |-> IF r = GetMealPlan THEN "Failed to fetch meal plan"
                              ELSE "Failed to fetch shopping list"]]

Sent(r, response) ==
    Append(responses, [route |-> r, status |-> response.status, body |-> response.body])

apiRest == <<engineVars, ollamaVars, cartVars, cacheVars, hookVars>>

InitApi ==
    /\ ApiIdle
    /\ EngineIdle
    /\ OllamaIdle /\ CartIdle /\ CacheIdle /\ HookIdle

\* a request arrives at one of the routes
ReceiveRequest ==
    /\ apc \in {"idle", "responded"}
    /\ Len(responses) < MaxRequests
    /\ route' \in PostRoutes \cup GetRoutes
    /\ apc' = "received"
    /\ caught' = NoError
    /\ UNCHANGED <<responses, apiRest>>

\* const body = await request.json()
ReadBody ==
    /\ apc = "received"
    /\ route \in PostRoutes
    /\ \/ apc' = "parsed" /\ UNCHANGED caught
       \/ apc' = "catch" /\ caught' = BodySyntaxError
    /\ UNCHANGED <<route, responses, apiRest>>

\* safeParse(body); if (!validation.success) throw ApiError.validation(...)
Validate ==
    /\ apc = "parsed"
    /\ \/ apc' = "valid" /\ UNCHANGED caught
       \/ apc' = "catch" /\ caught' = ApiErrorValidation("Invalid request data")
    /\ UNCHANGED <<route, responses, apiRest>>

\* the generation, aggregation or cart automation and the database write
Work ==
    /\ apc = "valid"
    /\ \/ apc' = "ok" /\ UNCHANGED caught
       \/ apc' = "catch" /\ caught' \in WorkErrors(route)
    /\ UNCHANGED <<route, responses, apiRest>>

\* return NextResponse.json({ success: true, ... })
RespondSuccess ==
    /\ apc = "ok"
    /\ responses' = Sent(route, [status |-> 200, body |-> [success |-> TRUE]])
    /\ apc' = "responded"
    /\ UNCHANGED <<route, caught, apiRest>>

\* catch (error) { return handleApiError(error) }
RespondError ==
    /\ apc = "catch"
    /\ responses' = Sent(route, handleApiError(caught))
    /\ apc' = "responded"
    /\ UNCHANGED <<route, caught, apiRest>>

\* a GET route: findUnique finds the row, finds none, or throws
GetById ==
    /\ apc = "received"
    /\ route \in GetRoutes
    /\ \E outcome \in {"found", "missing", "throws"} :
          responses' = Sent(route, GetResponse(route, outcome))
    /\ apc' = "responded"
    /\ UNCHANGED <<route, caught, apiRest>>

NextApi ==
    \/ ReceiveRequest
    \/ ReadBody
    \/ Validate
    \/ Work
    \/ RespondSuccess
    \/ RespondError
    \/ GetById

SpecApi == InitApi /\ [][NextApi]_vars

\* C23: every response of every API route, success or error, is JSON with a
\* boolean field success, and every error response carries a string field
\* error; so for the three POST routes and for the not-found and failure
\* responses of the two GET routes.
C23_EveryResponseHasSuccessAndError ==
    \A i \in 1..Len(responses) :
        /\ "success" \in DOMAIN responses[i].body
        /\ responses[i].body.success \in BOOLEAN
        /\ responses[i].status >= 400 =>
              /\ "error" \in DOMAIN responses[i].body
              /\ responses[i].body.error \in STRING
              /\ responses[i].body.success = FALSE

(***************************************************************************)
(* WalmartService.addIngredientsToCart (src/lib/env.ts, lines 135-218) and *)
(* addProductToCart (lines 69-130).  cartIndex is the loop variable i,     *)
(* attempts the calls of addProductToCart made, each with the name         *)
(* searched and the boolean returned.                                      *)
(***************************************************************************)
MaxCartItems == 3

CartNames == {"milk", "eggs"}

CartInputs == UNION {[1..n -> CartNames] : n \in 0..MaxCartItems}

cartRest == <<engineVars, ollamaVars, apiVars, cacheVars, hookVars>>

\* addProductToCart returns true from line 100 or 109, false from line 113,
\* and false from line 128 when anything inside its try block threw
ProductOutcomes ==
    { [path |-> "add-to-cart button", success |-> TRUE],
      [path |-> "Add button", success |-> TRUE],
      [path |-> "no button", success |-> FALSE],
      [path |-> "caught", success |-> FALSE] }

\* a failed item counted as added as well
CountAlways(count, success) == count + 1

\* if (success) addedCount++
CountAdded(count, success) == IF success THEN count + 1 ELSE count

\* else failedItems.push(ingredient.name)
PushFailed(failed, name, success) == IF success THEN failed ELSE Append(failed, name)

InitCart ==
    /\ cpc = "start"
    /\ ingredients \in CartInputs
    /\ cartIndex = 0
    /\ addedCount = 0
    /\ failedItems = <<>>
    /\ attempts = <<>>
    /\ EngineIdle
    /\ OllamaIdle /\ ApiIdle /\ CacheIdle /\ HookIdle

\* if (!this.browser) await this.initialize(); const page = await newPage():
\* outside the try block, so that what they throw leaves the call at once
OpenBrowser ==
    /\ cpc = "start"
    /\ cpc' \in {"try", "thrown"}
    /\ UNCHANGED <<ingredients, cartIndex, addedCount, failedItems, attempts, cartRest>>

\* page.goto('https://www.walmart.com') and the wait of 5 seconds
OpenWalmart ==
    /\ cpc = "try"
    /\ cpc' \in {"loop", "catch"}
    /\ UNCHANGED <<ingredients, cartIndex, addedCount, failedItems, attempts, cartRest>>

\* the body of the loop up to line 167, for ingredients[i]
AddProduct ==
    /\ cpc = "loop"
    /\ cartIndex < Len(ingredients)
    /\ \E outcome \in ProductOutcomes :
          LET name == ingredients[cartIndex + 1]
          IN /\ attempts' = Append(attempts, [name |-> name, success |-> outcome.success])
             /\ addedCount' = CountAdded(addedCount, outcome.success)
             /\ failedItems' = PushFailed(failedItems, name, outcome.success)
    /\ cpc' = IF cartIndex < Len(ingredients) - 1 THEN "wait" ELSE "next"
    /\ UNCHANGED <<ingredients, cartIndex, cartRest>>

\* if (i < ingredients.length - 1) await page.waitForTimeout(500)
WaitBetweenItems ==
    /\ cpc = "wait"
    /\ cpc' \in {"next", "catch"}
    /\ UNCHANGED <<ingredients, cartIndex, addedCount, failedItems, attempts, cartRest>>

\* i++
NextItem ==
    /\ cpc = "next"
    /\ cartIndex' = cartIndex + 1
    /\ cpc' = "loop"
    /\ UNCHANGED <<ingredients, addedCount, failedItems, attempts, cartRest>>

\* the loop is left: page.goto('https://www.walmart.com/cart') and the return
\* statement of lines 191-196
GoToCart ==
    /\ cpc = "loop"
    /\ ~(cartIndex < Len(ingredients))
    /\ cpc' \in {"return", "catch"}
    /\ UNCHANGED <<ingredients, cartIndex, addedCount, failedItems, attempts, cartRest>>

\* catch (error) { ... throw new Error(...) }
CatchAndThrow ==
    /\ cpc = "catch"
    /\ cpc' = "throw"
    /\ UNCHANGED <<ingredients, cartIndex, addedCount, failedItems, attempts, cartRest>>

\* finally { await page.close() }: the call returns or throws as it was about
\* to, unless page.close() throws
ClosePage ==
    /\ cpc \in {"return", "throw"}
    /\ cpc' \in {IF cpc = "return" THEN "returned" ELSE "thrown", "thrown"}
    /\ UNCHANGED <<ingredients, cartIndex, addedCount, failedItems, attempts, cartRest>>

NextCart ==
    \/ OpenBrowser
    \/ OpenWalmart
    \/ AddProduct
    \/ WaitBetweenItems
    \/ NextItem
    \/ GoToCart
    \/ CatchAndThrow
    \/ ClosePage

SpecCart == InitCart /\ [][NextCart]_vars

\* the names of the failed attempts, in the order of the attempts
RECURSIVE FailedNames(_)
FailedNames(as) ==
    IF as = <<>> THEN <<>>
    ELSE IF Head(as).success THEN FailedNames(Tail(as))
    ELSE <<Head(as).name>> \o FailedNames(Tail(as))

\* C28: whenever addIngredientsToCart returns instead of throwing, every
\* ingredient has been attempted exactly once, in input order, whether or not
\* an earlier attempt failed; addedCount + failedItems.length is the number of
\* ingredients, addedCount the number of attempts that succeeded, and
\* failedItems the names of the failed attempts in input order.
C28_EveryItemAttemptedOnce ==
    cpc = "returned" =>
        /\ Len(attempts) = Len(ingredients)
        /\ \A i \in 1..Len(ingredients) : attempts[i].name = ingredients[i]
        /\ addedCount + Len(failedItems) = Len(ingredients)
        /\ addedCount = Cardinality({i \in 1..Len(attempts) : attempts[i].success})
        /\ failedItems = FailedNames(attempts)

\* milk failed, eggs were added, milk failed again
C28_Witness ==
    /\ cpc = "returned"
    /\ ingredients = <<"milk", "eggs", "milk">>
    /\ attempts = << [name |-> "milk", success |-> FALSE],
                     [name |-> "eggs", success |-> TRUE],
                     [name |-> "milk", success |-> FALSE] >>
    /\ addedCount = 1
    /\ failedItems = <<"milk", "milk">>

(***************************************************************************)
(* Cache (src/lib/cache.ts).  now is Date.now(), counted in minutes; cache *)
(* is the Map of the instance, the list of its entries in insertion order; *)
(* lastOp is the last operation called, with the key it computed, the time *)
(* of the call and the value returned.  lastSet holds, for every key set   *)
(* since the last clear(), the data and the time of the most recent set.   *)
(***************************************************************************)
MaxClock == 4

\* new Cache(ttlMinutes)
ttlMinutes == 2

\* this.defaultTTL = ttlMinutes * 60 * 1000 milliseconds, here in minutes
defaultTTL == ttlMinutes

cacheRest == <<engineVars, ollamaVars, apiVars, cartVars, hookVars>>

\* JSON.stringify of a string and of a number
JSONstringify(value) ==
    IF value.type = "string" THEN "\"" \o value.text \o "\"" ELSE value.text

\* the property names used, in the order of Array.prototype.sort
SortedKeys == <<"diet", "number">>

\* Object.keys(params).sort().map(key => `${key}:${JSON.stringify(params[key])}`)
RECURSIVE KeyParts(_, _)
KeyParts(params, keys) ==
    IF keys = <<>> THEN <<>>
    ELSE IF \E i \in 1..Len(params) : params[i].key = Head(keys)
    THEN << Head(keys) \o ":" \o
            JSONstringify(params[CHOOSE i \in 1..Len(params) :
                                    params[i].key = Head(keys)].value) >>
         \o KeyParts(params, Tail(keys))
    ELSE KeyParts(params, Tail(keys))

\* .join('|')
RECURSIVE Join(_, _)
Join(parts, separator) ==
    IF parts = <<>> THEN ""
    ELSE IF Len(parts) = 1 THEN parts[1]
    ELSE parts[1] \o separator \o Join(Tail(parts), separator)

generateKey(prefix, params) == prefix \o ":" \o Join(KeyParts(params, SortedKeys), "|")

Vegan == [key |-> "diet", value |-> [type |-> "string", text |-> "vegan"]]
Seven == [key |-> "number", value |-> [type |-> "number", text |-> "7"]]

\* the prefix and params passed: an object lists its properties in the order
\* they were written
CacheRequests ==
    { [prefix |-> "recipes", params |-> <<Vegan, Seven>>],
      [prefix |-> "recipes", params |-> <<Seven, Vegan>>],
      [prefix |-> "recipes", params |-> <<>>] }

CacheData == {"A", "B"}

\* Map.prototype.has, get, set and delete on a list of entries
CacheHas(entries, key) == \E i \in 1..Len(entries) : entries[i].key = key
CacheEntry(entries, key) == entries[CHOOSE i \in 1..Len(entries) : entries[i].key = key]
CacheStore(entries, key, data, timestamp) ==
    IF CacheHas(entries, key)
    THEN [i \in 1..Len(entries) |->
            IF entries[i].key = key
            THEN [key |-> key, data |-> data, timestamp |-> timestamp]
            ELSE entries[i]]
    ELSE Append(entries, [key |-> key, data |-> data, timestamp |-> timestamp])
CacheDelete(entries, key) == SelectSeq(entries, LAMBDA e : e.key # key)

\* an entry exactly defaultTTL old taken for expired
ExpiredAtTTL(age) == age >= defaultTTL

\* age > this.defaultTTL
Expired(age) == age > defaultTTL

InitCache ==
    /\ now = 0
    /\ cache = <<>>
    /\ lastOp = [op |-> "none"]
    /\ lastSet = <<>>
    /\ EngineIdle
    /\ OllamaIdle /\ ApiIdle /\ CartIdle /\ HookIdle

\* time passes
Tick ==
    /\ now < MaxClock
    /\ now' = now + 1
    /\ UNCHANGED <<cache, lastOp, lastSet, cacheRest>>

\* the body of get(prefix, params): the Map after it and the value returned
GetResult(entries, key, time) ==
    IF ~CacheHas(entries, key)
    THEN [cache |-> entries, returned |-> "null"]
    ELSE IF Expired(time - CacheEntry(entries, key).timestamp)
    THEN [cache |-> CacheDelete(entries, key), returned |-> "null"]
    ELSE [cache |-> entries, returned |-> CacheEntry(entries, key).data]

CacheGet ==
    /\ \E request \in CacheRequests :
          LET key == generateKey(request.prefix, request.params)
              got == GetResult(cache, key, now)
          IN /\ cache' = got.cache
             /\ lastOp' = [op |-> "get", key |-> key, at |-> now,
                           returned |-> got.returned]
    /\ UNCHANGED <<now, lastSet, cacheRest>>

\* has(prefix, params): this.get(prefix, params) !== null
CacheHasValid ==
    /\ \E request \in CacheRequests :
          LET key == generateKey(request.prefix, request.params)
              got == GetResult(cache, key, now)
          IN /\ cache' = got.cache
             /\ lastOp' = [op |-> "has", key |-> key, at |-> now,
                           returned |-> (got.returned # "null")]
    /\ UNCHANGED <<now, lastSet, cacheRest>>

CacheSet ==
    /\ \E request \in CacheRequests, data \in CacheData :
          LET key == generateKey(request.prefix, request.params)
          IN /\ cache' = CacheStore(cache, key, data, now)
             /\ lastSet' = CacheStore(lastSet, key, data, now)
             /\ lastOp' = [op |-> "set", key |-> key, at |-> now]
    /\ UNCHANGED <<now, cacheRest>>

CacheClear ==
    /\ cache' = <<>>
    /\ lastSet' = <<>>
    /\ lastOp' = [op |-> "clear", at |-> now]
    /\ UNCHANGED <<now, cacheRest>>

CacheClearExpired ==
    /\ cache' = SelectSeq(cache, LAMBDA e : ~Expired(now - e.timestamp))
    /\ lastOp' = [op |-> "clearExpired", at |-> now]
    /\ UNCHANGED <<now, lastSet, cacheRest>>

NextCache ==
    \/ Tick
    \/ CacheGet
    \/ CacheHasValid
    \/ CacheSet
    \/ CacheClear
    \/ CacheClearExpired

SpecCache == InitCache /\ [][NextCache]_vars

\* C29: under a clock that never goes back, get returns the data of the most
\* recent set of the key if that set is at most the TTL old and no clear()
\* came after it, and null otherwise; an entry older than the TTL is never
\* returned, and the get (or has) that finds it removes it, as clearExpired
\* removes every such entry.
C29_GetReturnsFreshData ==
    /\ lastOp.op = "get" =>
          lastOp.returned =
             IF CacheHas(lastSet, lastOp.key)
                /\ lastOp.at - CacheEntry(lastSet, lastOp.key).timestamp <= defaultTTL
             THEN CacheEntry(lastSet, lastOp.key).data
             ELSE "null"
    /\ lastOp.op \in {"get", "has"} =>
          ~(CacheHas(cache, lastOp.key)
            /\ lastOp.at - CacheEntry(cache, lastOp.key).timestamp > defaultTTL)
    /\ lastOp.op = "clearExpired" =>
          \A i \in 1..Len(cache) : lastOp.at - cache[i].timestamp <= defaultTTL
    /\ \A i \in 1..Len(cache) :
          /\ CacheHas(lastSet, cache[i].key)
          /\ CacheEntry(lastSet, cache[i].key).data = cache[i].data
          /\ CacheEntry(lastSet, cache[i].key).timestamp = cache[i].timestamp

\* a get found the entry of a key older than the TTL, removed it and returned
\* null, while the entry of another key, set exactly the TTL before, is kept
C29_Witness ==
    /\ lastOp.op = "get"
    /\ lastOp.returned = "null"
    /\ CacheHas(lastSet, lastOp.key)
    /\ lastOp.at - CacheEntry(lastSet, lastOp.key).timestamp > defaultTTL
    /\ ~CacheHas(cache, lastOp.key)
    /\ \E i \in 1..Len(cache) : lastOp.at - cache[i].timestamp = defaultTTL

(***************************************************************************)
(* useApiMutation (src/hooks/useApiMutation.ts).  hookState is the state   *)
(* of useState; calls lists the calls of mutate in the order they were     *)
(* started, each pending at its await or settled with what it passed to    *)
(* setState.  The data of the response to call i is written i.             *)
(***************************************************************************)
MaxMutations == 3

hookRest == <<engineVars, ollamaVars, apiVars, cartVars, cacheVars>>

\* what the awaits of lines 29-37 give: a response with response.ok, a
\* response without it whose body has an error text or none, or a rejection
\* with an Error or with another value
FetchOutcomes ==
    { [kind |-> "ok"],
      [kind |-> "not ok", error |-> "Invalid request data"],
      [kind |-> "not ok", error |-> ""],
      [kind |-> "rejected", class |-> "Error", message |-> "Failed to fetch"],
      [kind |-> "rejected", class |-> "other", message |-> ""] }

\* the state a call passes to setState when its awaits are over
SettledState(i, outcome) ==
    IF outcome.kind = "ok"
    THEN [data |-> i, error |-> "null", isLoading |-> FALSE]
    ELSE IF outcome.kind = "not ok"
    THEN [data |-> "null",
          error |-> IF outcome.error = "" THEN "An error occurred" ELSE outcome.error,
          isLoading |-> FALSE]
    ELSE [data |-> "null",
          error |-> IF outcome.class = "Error" THEN outcome.message ELSE "Network error",
          isLoading |-> FALSE]

InitHook ==
    /\ hookState = [data |-> "null", error |-> "null", isLoading |-> FALSE]
    /\ calls = <<>>
    /\ EngineIdle
    /\ OllamaIdle /\ ApiIdle /\ CartIdle /\ CacheIdle

\* mutate(body) up to await fetch(...)
Mutate ==
    /\ Len(calls) < MaxMutations
    /\ hookState' = [data |-> "null", error |-> "null", isLoading |-> TRUE]
    /\ calls' = Append(calls, [status |-> "pending"])
    /\ UNCHANGED hookRest

\* a pending call goes on after its awaits: lines 39-54
Settle ==
    /\ \E i \in 1..Len(calls), outcome \in FetchOutcomes :
          /\ calls[i].status = "pending"
          /\ hookState' = SettledState(i, outcome)
          /\ calls' = [calls EXCEPT ![i] = [status |-> "settled",
                                            state |-> SettledState(i, outcome)]]
    /\ UNCHANGED hookRest

NextHook ==
    \/ Mutate
    \/ Settle

SpecHook == InitHook /\ [][NextHook]_vars

\* C30: for every interleaving of overlapping mutate calls, isLoading is true
\* as long as at least one call is in flight, and once all calls have
\* completed the state is the one of the call started last.
C30_LoadingWhileInFlightLastCallWins ==
    /\ (\E i \in 1..Len(calls) : calls[i].status = "pending") => hookState.isLoading
    /\ (calls # <<>> /\ \A i \in 1..Len(calls) : calls[i].status = "settled") =>
          hookState = calls[Len(calls)].state

====
